---- MODULE Spec2Model ----
(***************************************************************************)
(* Model of the BME280 driver core (bme280.c / bme280.h): the device       *)
(* structure BME280_t, the sensor's configuration registers as seen over   *)
(* the bus, and one action per public function.  A caller alternates       *)
(* between issuing a call (pc = "call") and holding its result             *)
(* (pc = "ret"); `last' records the call that has just returned: its       *)
(* arguments, return value, the bus/delay events it issued in order and    *)
(* the device structure as it was before the call.                         *)
(***************************************************************************)
EXTENDS Integers, Sequences, FiniteSets, TLC

VARIABLES
    initialized,    \* Dev->initialized
    mode,           \* Dev->mode
    driver,         \* Dev->driver (the attached BME280_Driver_t, or null)
    trimm,          \* Dev->trimm (calibration data)
    t_fine,         \* Dev->t_fine
    regs,           \* sensor registers ctrl_hum, status, ctrl_meas, config
    pc,             \* caller position: "call" | "ret"
    last,           \* the call that has just returned
    prev,           \* the call before it (kept only by the two-call specification)
    fault           \* TRUE after a call dereferenced a null Dev->driver

vars == <<initialized, mode, driver, trimm, t_fine, regs, pc, last, prev, fault>>

----------------------------------------------------------------------------
(* Return codes (bme280_definitions.h) *)
BME280_OK == 0
BME280_PARAM_ERR == -1
BME280_INTERFACE_ERR == -2
BME280_ID_ERR == -3
BME280_NO_INIT_ERR == -4
BME280_CONDITION_ERR == -5
BME280_BUSY_ERR == -6

(* Register addresses and values (bme280_definitions.h) *)
BME280_ID_ADDR == 208
BME280_RESET_ADDR == 224
BME280_RESET_VALUE == 182
BME280_CTRL_HUM_ADDR == 242
BME280_STATUS_ADDR == 243
BME280_CTRL_MEAS_ADDR == 244
BME280_CONFIG_ADDR == 245
BME280_CALIB_DATA1_ADDR == 136
BME280_CALIB_DATA1_LEN == 25
BME280_CALIB_DATA2_ADDR == 225
BME280_CALIB_DATA2_LEN == 7

(* Enumerated argument values (bme280_definitions.h) *)
BME280_SLEEPMODE == 0
BME280_FORCEDMODE == 1
BME280_NORMALMODE == 3
BME280_OVERSAMPLING_X2 == 2
BME280_OVERSAMPLING_X4 == 3
BME280_OVERSAMPLING_X8 == 4
BME280_OVERSAMPLING_X16 == 5
BME280_STBY_20MS == 7
BME280_FILTER_16 == 4
BME280_ID == 96

(* enum { sleep_mode, forced_mode, normal_mode } and { not_initialized, initialized } *)
sleep_mode == 0
forced_mode == 1
normal_mode == 3
not_initialized == 0
is_initialized == 1

(* Results of the platform bus functions: 0 on success, -1 on failure *)
BusOk == 0
BusFail == -1

----------------------------------------------------------------------------
(* 8-bit arithmetic *)
RECURSIVE BitAndBits(_, _)
BitAndBits(a, b) ==
    IF a = 0 \/ b = 0 THEN 0
    ELSE (a % 2) * (b % 2) + 2 * BitAndBits(a \div 2, b \div 2)

RECURSIVE BitOrBits(_, _)
BitOrBits(a, b) ==
    IF a = 0 THEN b
    ELSE IF b = 0 THEN a
    ELSE (IF (a % 2) + (b % 2) > 0 THEN 1 ELSE 0) + 2 * BitOrBits(a \div 2, b \div 2)

(* The two operators on bytes, computed once *)
BitAndByte == [a \in 0..255 |-> [b \in 0..255 |-> BitAndBits(a, b)]]

BitOrByte == [a \in 0..255 |-> [b \in 0..255 |-> BitOrBits(a, b)]]

BitAnd(a, b) ==
    IF a < 256 /\ b < 256 THEN BitAndByte[a][b] ELSE BitAndBits(a, b)

BitOr(a, b) ==
    IF a < 256 /\ b < 256 THEN BitOrByte[a][b] ELSE BitOrBits(a, b)

RECURSIVE Pow2(_)
Pow2(n) == IF n = 0 THEN 1 ELSE 2 * Pow2(n - 1)

Shl(x, n) == x * Pow2(n)
Shr(x, n) == x \div Pow2(n)
U8(x) == x % 256

----------------------------------------------------------------------------
(* Pointers: a driver structure is a record; `null' marks the NULL pointer,
   and write/read/delay say whether the function pointer is set. *)
NullDriver == [null |-> TRUE, id |-> 0, write |-> FALSE, read |-> FALSE, delay |-> FALSE]

FullDriver(i) == [null |-> FALSE, id |-> i, write |-> TRUE, read |-> TRUE, delay |-> TRUE]

(* The device structure as one value *)
Dev == [initialized |-> initialized, mode |-> mode, driver |-> driver,
        trimm |-> trimm, t_fine |-> t_fine]

(* Bus and delay events, in the order a call issues them *)
EvWrite(addr, val, res) ==
    [k |-> "w", addr |-> addr, val |-> val, len |-> 1, res |-> res, data |-> <<>>]

EvRead(addr, len, res, data) ==
    [k |-> "r", addr |-> addr, val |-> 0, len |-> len, res |-> res,
     data |-> IF res = BusOk THEN data ELSE <<>>]

EvDelay(ms) ==
    [k |-> "d", addr |-> 0, val |-> ms, len |-> 0, res |-> BusOk, data |-> <<>>]

(* Result of running a handler: return value, events issued, device
   structure and sensor registers afterwards *)
OutV(ret, trace, d, rg, out) ==
    [ret |-> ret, trace |-> trace, dev |-> d, regs |-> rg, out |-> out]

Out(ret, trace, d, rg) == OutV(ret, trace, d, rg, <<>>)

(* The bus result of the n-th bus operation of a call in which the
   fp-th operation is the first to fail (fp = 0: none fails) *)
BusRes(fp, n) == IF fp = n THEN BusFail ELSE BusOk

(* Sensor side of a register write: the register keeps the written value;
   the reset command restores the power-on defaults *)
ResetRegs == [a \in {BME280_CTRL_HUM_ADDR, BME280_STATUS_ADDR,
                     BME280_CTRL_MEAS_ADDR, BME280_CONFIG_ADDR} |-> 0]

SensorWrite(rg, addr, val, res) ==
    IF res # BusOk THEN rg
    ELSE IF addr = BME280_RESET_ADDR
         THEN (IF val = BME280_RESET_VALUE THEN ResetRegs ELSE rg)
    ELSE [rg EXCEPT ![addr] = val]

----------------------------------------------------------------------------
(* Calibration parsing *)
CAT_UI16T(msb, lsb) == BitOr(Shl(msb, 8), lsb) % 65536

CAT_I16T(msb, lsb) ==
    LET u == BitOr(Shl(msb, 8), lsb) % 65536
    IN IF u >= 32768 THEN u - 65536 ELSE u

I8(b) == IF b >= 128 THEN b - 256 ELSE b

I16(x) == LET u == x % 65536 IN IF u >= 32768 THEN u - 65536 ELSE u

ZeroTrimm ==
    [dig_T1 |-> 0, dig_T2 |-> 0, dig_T3 |-> 0,
     dig_P1 |-> 0, dig_P2 |-> 0, dig_P3 |-> 0, dig_P4 |-> 0, dig_P5 |-> 0,
     dig_P6 |-> 0, dig_P7 |-> 0, dig_P8 |-> 0, dig_P9 |-> 0,
     dig_H1 |-> 0, dig_H2 |-> 0, dig_H3 |-> 0, dig_H4 |-> 0, dig_H5 |-> 0,
     dig_H6 |-> 0]

(* b is tmp_buff, 1-based: b[i + 1] is tmp_buff[i] *)
ParseTrimm(b) ==
    [dig_T1 |-> CAT_UI16T(b[2], b[1]),
     dig_T2 |-> CAT_I16T(b[4], b[3]),
     dig_T3 |-> CAT_I16T(b[6], b[5]),
     dig_P1 |-> CAT_UI16T(b[8], b[7]),
     dig_P2 |-> CAT_I16T(b[10], b[9]),
     dig_P3 |-> CAT_I16T(b[12], b[11]),
     dig_P4 |-> CAT_I16T(b[14], b[13]),
     dig_P5 |-> CAT_I16T(b[16], b[15]),
     dig_P6 |-> CAT_I16T(b[18], b[17]),
     dig_P7 |-> CAT_I16T(b[20], b[19]),
     dig_P8 |-> CAT_I16T(b[22], b[21]),
     dig_P9 |-> CAT_I16T(b[24], b[23]),
     dig_H1 |-> b[25],
     dig_H2 |-> CAT_I16T(b[27], b[26]),
     dig_H3 |-> b[28],
     dig_H4 |-> I16(BitOr(Shl(b[29], 4), BitAnd(b[30], 15))),
     dig_H5 |-> I16(BitOr(Shl(b[31], 4), Shr(b[30], 4))),
     dig_H6 |-> I8(b[32])]

(* Calibration images a sensor can hold: 25 bytes of range 1 followed by
   7 bytes of range 2 *)
CalibImageA ==
    << 112, 107,  67, 103,  24, 252, 125, 142,  67, 214, 208,  11,
        39,  11, 140,   0, 249, 255, 140,  60, 248, 198, 112,  23,
        75, 106,   1,   0,  20,  41,   3,  30 >>

CalibImageB ==
    <<   1,   0, 255, 255,   2,   0,   0,   0, 255, 127,   0, 128,
         3,   0,   4,   0,   5,   0,   6,   0,   7,   0,   8,   0,
       255,   0,   1, 255,  20, 171, 128, 200 >>

CalibImages == {CalibImageA, CalibImageB}

(* ParseTrimm, computed once for each calibration image *)
ParsedTrimm == [img \in CalibImages |-> ParseTrimm(img)]

bme280_read_compensation_parameters_nocheck2(d, rg, r1, r2, img) ==
    LET e1 == EvRead(BME280_CALIB_DATA1_ADDR, BME280_CALIB_DATA1_LEN, r1,
                     SubSeq(img, 1, BME280_CALIB_DATA1_LEN))
        e2 == EvRead(BME280_CALIB_DATA2_ADDR, BME280_CALIB_DATA2_LEN, r2,
                     SubSeq(img, 26, 25 + BME280_CALIB_DATA2_LEN))
    IN  IF r1 # BME280_OK THEN Out(BME280_INTERFACE_ERR, <<e1>>, d, rg)
        ELSE Out(BME280_OK, <<e1, e2>>, [d EXCEPT !.trimm = ParsedTrimm[img]], rg)

bme280_read_compensation_parameters_early(d, rg, r1, r2, img) ==
    LET e1 == EvRead(BME280_CALIB_DATA1_ADDR, BME280_CALIB_DATA1_LEN, r1,
                     SubSeq(img, 1, BME280_CALIB_DATA1_LEN))
        e2 == EvRead(BME280_CALIB_DATA2_ADDR, BME280_CALIB_DATA2_LEN, r2,
                     SubSeq(img, 26, 25 + BME280_CALIB_DATA2_LEN))
    IN  IF r1 # BME280_OK THEN Out(BME280_INTERFACE_ERR, <<e1>>, d, rg)
        ELSE IF r2 # BME280_OK
        THEN Out(BME280_INTERFACE_ERR, <<e1, e2>>,
                 [d EXCEPT !.trimm = ParsedTrimm[img]], rg)
        ELSE Out(BME280_OK, <<e1, e2>>, [d EXCEPT !.trimm = ParsedTrimm[img]], rg)

(* bme280_read_compensation_parameters; r1, r2 are the results of the two
   bus reads, img the bytes the sensor holds *)
bme280_read_compensation_parameters_partial(d, rg, r1, r2, img) ==
    LET e1 == EvRead(BME280_CALIB_DATA1_ADDR, BME280_CALIB_DATA1_LEN, r1,
                     SubSeq(img, 1, BME280_CALIB_DATA1_LEN))
        e2 == EvRead(BME280_CALIB_DATA2_ADDR, BME280_CALIB_DATA2_LEN, r2,
                     SubSeq(img, 26, 25 + BME280_CALIB_DATA2_LEN))
        p  == ParsedTrimm[img]
    IN  IF r1 # BME280_OK THEN Out(BME280_INTERFACE_ERR, <<e1>>, d, rg)
        ELSE IF r2 # BME280_OK
        THEN Out(BME280_INTERFACE_ERR, <<e1, e2>>,
                 [d EXCEPT !.trimm.dig_T1 = p.dig_T1, !.trimm.dig_T2 = p.dig_T2,
                           !.trimm.dig_T3 = p.dig_T3], rg)
        ELSE Out(BME280_OK, <<e1, e2>>, [d EXCEPT !.trimm = p], rg)

bme280_read_compensation_parameters(d, rg, r1, r2, img) ==
    LET e1 == EvRead(BME280_CALIB_DATA1_ADDR, BME280_CALIB_DATA1_LEN, r1,
                     SubSeq(img, 1, BME280_CALIB_DATA1_LEN))
        e2 == EvRead(BME280_CALIB_DATA2_ADDR, BME280_CALIB_DATA2_LEN, r2,
                     SubSeq(img, 26, 25 + BME280_CALIB_DATA2_LEN))
    IN  IF r1 # BME280_OK THEN Out(BME280_INTERFACE_ERR, <<e1>>, d, rg)
        ELSE IF r2 # BME280_OK THEN Out(BME280_INTERFACE_ERR, <<e1, e2>>, d, rg)
        ELSE Out(BME280_OK, <<e1, e2>>, [d EXCEPT !.trimm = ParsedTrimm[img]], rg)

----------------------------------------------------------------------------
(* Mode precondition checks *)
bme280_is_sleep_mode_nomode(d) ==
    IF d.initialized = not_initialized THEN BME280_NO_INIT_ERR
    ELSE BME280_OK

bme280_is_sleep_mode_normalonly(d) ==
    IF d.initialized = not_initialized THEN BME280_NO_INIT_ERR
    ELSE IF d.mode = normal_mode THEN BME280_CONDITION_ERR
    ELSE BME280_OK

bme280_is_sleep_mode_noinit(d) ==
    IF d.mode # sleep_mode THEN BME280_CONDITION_ERR
    ELSE BME280_OK

bme280_is_sleep_mode(d) ==
    IF d.initialized = not_initialized THEN BME280_NO_INIT_ERR
    ELSE IF d.mode # sleep_mode THEN BME280_CONDITION_ERR
    ELSE BME280_OK

bme280_is_normal_mode_notsleep(d) ==
    IF d.initialized = not_initialized THEN BME280_NO_INIT_ERR
    ELSE IF d.mode = sleep_mode THEN BME280_CONDITION_ERR
    ELSE BME280_OK

bme280_is_normal_mode(d) ==
    IF d.initialized = not_initialized THEN BME280_NO_INIT_ERR
    ELSE IF d.mode # normal_mode THEN BME280_CONDITION_ERR
    ELSE BME280_OK

----------------------------------------------------------------------------
BME280_Reset_onsuccess(d, rg, wres) ==
    IF ~d.driver.write THEN Out(BME280_PARAM_ERR, <<>>, d, rg)
    ELSE Out(wres,
             <<EvWrite(BME280_RESET_ADDR, BME280_RESET_VALUE, wres)>>,
             IF wres = BME280_OK THEN [d EXCEPT !.mode = sleep_mode] ELSE d,
             SensorWrite(rg, BME280_RESET_ADDR, BME280_RESET_VALUE, wres))

(* BME280_Reset on a device whose driver pointer is set; wres is the result
   of the bus write *)
BME280_Reset(d, rg, wres) ==
    IF ~d.driver.write THEN Out(BME280_PARAM_ERR, <<>>, d, rg)
    ELSE Out(wres,
             <<EvWrite(BME280_RESET_ADDR, BME280_RESET_VALUE, wres)>>,
             [d EXCEPT !.mode = sleep_mode],
             SensorWrite(rg, BME280_RESET_ADDR, BME280_RESET_VALUE, wres))

InitParamBad_nodelay(Driver) ==
    Driver.null \/ ~Driver.write \/ ~Driver.read

(* The parameter check of BME280_Init *)
InitParamBad(Driver) ==
    Driver.null \/ ~Driver.write \/ ~Driver.read \/ ~Driver.delay

IdCheck_enabled(id) == IF id # BME280_ID THEN BME280_ID_ERR ELSE BME280_OK

(* The chip-id comparison of BME280_Init is commented out: every id passes *)
IdCheck(id) == BME280_OK

(* BME280_Init; Driver is the driver structure passed in, fp the index of
   the first failing bus operation (1 reset write, 2 id read, 3 and 4 the
   calibration reads; 0 none), id the byte the identity register returns,
   img the calibration bytes of the sensor *)
BME280_Init(d, rg, Driver, fp, id, img) ==
    IF InitParamBad(Driver) THEN Out(BME280_PARAM_ERR, <<>>, d, rg)
    ELSE
    LET d1 == [d EXCEPT !.driver = Driver]
        r  == BME280_Reset(d1, rg, BusRes(fp, 1))
    IN  IF r.ret # BME280_OK THEN r
        ELSE
        LET tr == r.trace \o <<EvDelay(4), EvRead(BME280_ID_ADDR, 1, BusRes(fp, 2), <<id>>)>>
        IN  IF BusRes(fp, 2) # BME280_OK
            THEN Out(BME280_INTERFACE_ERR, tr, r.dev, r.regs)
            ELSE IF IdCheck(id) # BME280_OK
            THEN Out(IdCheck(id), tr, r.dev, r.regs)
            ELSE
            LET c == bme280_read_compensation_parameters(r.dev, r.regs,
                         BusRes(fp, 3), BusRes(fp, 4), img)
            IN  Out(c.ret, tr \o c.trace,
                    IF c.ret = BME280_OK
                    THEN [c.dev EXCEPT !.initialized = is_initialized]
                    ELSE c.dev,
                    c.regs)

----------------------------------------------------------------------------
(* A configuration structure passed to BME280_ConfigureAll; `null' marks a
   NULL Config pointer *)
MkConfig(t, p, h, stby, filter, spi, m) ==
    [null |-> FALSE, oversampling_t |-> t, oversampling_p |-> p,
     oversampling_h |-> h, t_stby |-> stby, filter |-> filter,
     spi3w_enable |-> spi, mode |-> m]

NullConfig == [MkConfig(0, 0, 0, 0, 0, 0, 0) EXCEPT !.null = TRUE]

(* The three register bytes computed from a configuration *)
PackCtrlHum(Config) == BitAnd(Config.oversampling_h, 7)

PackCtrlMeas_nomask(Config) ==
    BitOr(BitOr(BitAnd(Shl(Config.oversampling_t, 5), 224),
                BitAnd(Shl(Config.oversampling_p, 2), 28)),
          Config.mode)

PackCtrlMeas(Config) ==
    BitOr(BitOr(BitAnd(Shl(Config.oversampling_t, 5), 224),
                BitAnd(Shl(Config.oversampling_p, 2), 28)),
          BitAnd(Config.mode, 3))

PackConfig(Config) ==
    BitOr(BitOr(BitAnd(Shl(Config.t_stby, 5), 224),
                BitAnd(Shl(Config.filter, 2), 28)),
          BitAnd(Config.spi3w_enable, 1))

(* The mode stored in the device structure at the end of ConfigureAll *)
ConfigureAllMode(d, Config) ==
    IF Config.mode = BME280_SLEEPMODE THEN sleep_mode
    ELSE IF Config.mode = BME280_FORCEDMODE THEN forced_mode
    ELSE IF Config.mode = BME280_NORMALMODE THEN normal_mode
    ELSE d.mode

ConfigureAllWrites_measfirst(Config) ==
    << <<BME280_CTRL_MEAS_ADDR, PackCtrlMeas(Config)>>,
       <<BME280_CTRL_HUM_ADDR, PackCtrlHum(Config)>>,
       <<BME280_CONFIG_ADDR, PackConfig(Config)>> >>

(* The three register writes of ConfigureAll, in the order they are sent *)
ConfigureAllWrites(Config) ==
    << <<BME280_CTRL_HUM_ADDR, PackCtrlHum(Config)>>,
       <<BME280_CTRL_MEAS_ADDR, PackCtrlMeas(Config)>>,
       <<BME280_CONFIG_ADDR, PackConfig(Config)>> >>

(* BME280_ConfigureAll; fp is the index of the first failing bus write *)
BME280_ConfigureAll(d, rg, Config, fp) ==
    IF Config.null THEN Out(BME280_PARAM_ERR, <<>>, d, rg)
    ELSE
    LET s == bme280_is_sleep_mode(d)
    IN  IF s # BME280_OK THEN Out(s, <<>>, d, rg)
        ELSE
        LET w   == ConfigureAllWrites(Config)
            e1  == EvWrite(w[1][1], w[1][2], BusRes(fp, 1))
            rg1 == SensorWrite(rg, w[1][1], w[1][2], BusRes(fp, 1))
            e2  == EvWrite(w[2][1], w[2][2], BusRes(fp, 2))
            rg2 == SensorWrite(rg1, w[2][1], w[2][2], BusRes(fp, 2))
            e3  == EvWrite(w[3][1], w[3][2], BusRes(fp, 3))
            rg3 == SensorWrite(rg2, w[3][1], w[3][2], BusRes(fp, 3))
        IN  IF BusRes(fp, 1) # BME280_OK
            THEN Out(BME280_INTERFACE_ERR, <<e1>>, d, rg1)
            ELSE IF BusRes(fp, 2) # BME280_OK
            THEN Out(BME280_INTERFACE_ERR, <<e1, e2>>, d, rg2)
            ELSE IF BusRes(fp, 3) # BME280_OK
            THEN Out(BME280_INTERFACE_ERR, <<e1, e2, e3>>, d, rg3)
            ELSE Out(BME280_OK, <<e1, e2, e3>>,
                     [d EXCEPT !.mode = ConfigureAllMode(d, Config)], rg3)

----------------------------------------------------------------------------
(* Getters.  Each reads one register; r is the result of the bus read. *)
GetModeValue_raw(ctrl_meas) == BitAnd(ctrl_meas, 3)

GetModeValue(ctrl_meas) ==
    LET m == BitAnd(ctrl_meas, 3)
    IN  IF m = 2 THEN BME280_FORCEDMODE ELSE m

ReadOne(rg, addr, r) == EvRead(addr, 1, r, <<rg[addr]>>)

BME280_GetMode_nostore(d, rg, r) ==
    IF bme280_is_sleep_mode(d) = BME280_NO_INIT_ERR
    THEN Out(BME280_NO_INIT_ERR, <<>>, d, rg)
    ELSE IF r # BME280_OK
    THEN Out(BME280_INTERFACE_ERR, <<ReadOne(rg, BME280_CTRL_MEAS_ADDR, r)>>, d, rg)
    ELSE OutV(r, <<ReadOne(rg, BME280_CTRL_MEAS_ADDR, r)>>, d, rg,
              <<GetModeValue(rg[BME280_CTRL_MEAS_ADDR])>>)

BME280_GetMode(d, rg, r) ==
    IF bme280_is_sleep_mode(d) = BME280_NO_INIT_ERR
    THEN Out(BME280_NO_INIT_ERR, <<>>, d, rg)
    ELSE IF r # BME280_OK
    THEN Out(BME280_INTERFACE_ERR, <<ReadOne(rg, BME280_CTRL_MEAS_ADDR, r)>>, d, rg)
    ELSE OutV(r, <<ReadOne(rg, BME280_CTRL_MEAS_ADDR, r)>>,
              [d EXCEPT !.mode = GetModeValue(rg[BME280_CTRL_MEAS_ADDR])], rg,
              <<GetModeValue(rg[BME280_CTRL_MEAS_ADDR])>>)

GetField_sleeponly(d, rg, r, addr, field) ==
    IF bme280_is_sleep_mode(d) # BME280_OK
    THEN Out(bme280_is_sleep_mode(d), <<>>, d, rg)
    ELSE IF r # BME280_OK
    THEN Out(BME280_INTERFACE_ERR, <<ReadOne(rg, addr, r)>>, d, rg)
    ELSE OutV(r, <<ReadOne(rg, addr, r)>>, d, rg, <<field>>)

(* The common shape of the six field getters: addr is the register read,
   field the mask-and-shift applied to the byte read *)
GetField(d, rg, r, addr, field) ==
    IF bme280_is_sleep_mode(d) = BME280_NO_INIT_ERR
    THEN Out(BME280_NO_INIT_ERR, <<>>, d, rg)
    ELSE IF r # BME280_OK
    THEN Out(BME280_INTERFACE_ERR, <<ReadOne(rg, addr, r)>>, d, rg)
    ELSE OutV(r, <<ReadOne(rg, addr, r)>>, d, rg, <<field>>)

FieldPOvs_shift3(x) == BitAnd(Shr(x, 3), 7)

FieldPOvs(x) == BitAnd(Shr(x, 2), 7)
FieldTOvs(x) == BitAnd(Shr(x, 5), 7)
FieldHOvs(x) == BitAnd(x, 7)
FieldTStby_shift4(x) == BitAnd(Shr(x, 4), 7)

FieldTStby(x) == BitAnd(Shr(x, 5), 7)
FieldFilter(x) == BitAnd(Shr(x, 2), 7)
FieldSpi3w(x) == BitAnd(x, 1)

BME280_GetPOvs(d, rg, r) == GetField(d, rg, r, BME280_CTRL_MEAS_ADDR,
             FieldPOvs(rg[BME280_CTRL_MEAS_ADDR]))
BME280_GetTOvs(d, rg, r) == GetField(d, rg, r, BME280_CTRL_MEAS_ADDR,
             FieldTOvs(rg[BME280_CTRL_MEAS_ADDR]))
BME280_GetHOvs(d, rg, r) == GetField(d, rg, r, BME280_CTRL_HUM_ADDR,
             FieldHOvs(rg[BME280_CTRL_HUM_ADDR]))
BME280_GetTStby(d, rg, r) == GetField(d, rg, r, BME280_CONFIG_ADDR,
             FieldTStby(rg[BME280_CONFIG_ADDR]))
BME280_GetTFilter(d, rg, r) == GetField(d, rg, r, BME280_CONFIG_ADDR,
             FieldFilter(rg[BME280_CONFIG_ADDR]))
BME280_Is3WireSPIEnabled(d, rg, r) == GetField(d, rg, r, BME280_CONFIG_ADDR,
             FieldSpi3w(rg[BME280_CONFIG_ADDR]))

----------------------------------------------------------------------------
(* BME280_SetMode; fp is the index of the first failing bus operation
   (1 the read of ctrl_meas, 2 the write) *)
BME280_SetMode(d, rg, Mode, fp) ==
    IF Mode > BME280_NORMALMODE THEN Out(BME280_PARAM_ERR, <<>>, d, rg)
    ELSE IF bme280_is_sleep_mode(d) = BME280_NO_INIT_ERR
    THEN Out(BME280_NO_INIT_ERR, <<>>, d, rg)
    ELSE
    LET e1        == ReadOne(rg, BME280_CTRL_MEAS_ADDR, BusRes(fp, 1))
        ctrl_meas == rg[BME280_CTRL_MEAS_ADDR]
        tmp       == GetModeValue(ctrl_meas)
        nv        == U8(BitOr(BitAnd(ctrl_meas, 252), Mode))
        e2        == EvWrite(BME280_CTRL_MEAS_ADDR, nv, BusRes(fp, 2))
    IN  IF BusRes(fp, 1) # BME280_OK THEN Out(BME280_INTERFACE_ERR, <<e1>>, d, rg)
        ELSE IF Mode = tmp THEN Out(BME280_OK, <<e1>>, d, rg)
        ELSE IF BusRes(fp, 2) # BME280_OK
        THEN Out(BME280_INTERFACE_ERR, <<e1, e2>>, d, rg)
        ELSE Out(BME280_OK, <<e1, e2>>, [d EXCEPT !.mode = Mode],
                 SensorWrite(rg, BME280_CTRL_MEAS_ADDR, nv, BusRes(fp, 2)))

SetField_retry(d, rg, fp, paramBad, addr, want, tmp, keep, bits) ==
    IF paramBad THEN Out(BME280_PARAM_ERR, <<>>, d, rg)
    ELSE
    LET s == bme280_is_sleep_mode(d)
    IN  IF s # BME280_OK THEN Out(s, <<>>, d, rg)
        ELSE
        LET e1 == ReadOne(rg, addr, BusRes(fp, 1))
            nv == U8(BitOr(BitAnd(rg[addr], keep), bits))
            e2 == EvWrite(addr, nv, BusRes(fp, 2))
        IN  IF BusRes(fp, 1) # BME280_OK
            THEN Out(BME280_INTERFACE_ERR, <<e1, e1>>, d, rg)
            ELSE IF want = tmp THEN Out(BME280_OK, <<e1>>, d, rg)
            ELSE Out(BusRes(fp, 2), <<e1, e2>>, d,
                     SensorWrite(rg, addr, nv, BusRes(fp, 2)))

(* The common shape of the read-modify-write field setters: paramBad is the
   parameter check, addr the register, tmp the current field extracted from
   the byte read, keep the mask of the bits kept, bits the new field in
   position.  The result of the final write is returned as the bus reported
   it. *)
SetField(d, rg, fp, paramBad, addr, want, tmp, keep, bits) ==
    IF paramBad THEN Out(BME280_PARAM_ERR, <<>>, d, rg)
    ELSE
    LET s == bme280_is_sleep_mode(d)
    IN  IF s # BME280_OK THEN Out(s, <<>>, d, rg)
        ELSE
        LET e1 == ReadOne(rg, addr, BusRes(fp, 1))
            nv == U8(BitOr(BitAnd(rg[addr], keep), bits))
            e2 == EvWrite(addr, nv, BusRes(fp, 2))
        IN  IF BusRes(fp, 1) # BME280_OK
            THEN Out(BME280_INTERFACE_ERR, <<e1>>, d, rg)
            ELSE IF want = tmp THEN Out(BME280_OK, <<e1>>, d, rg)
            ELSE Out(BusRes(fp, 2), <<e1, e2>>, d,
                     SensorWrite(rg, addr, nv, BusRes(fp, 2)))

BME280_SetPOvs(d, rg, POvs, fp) ==
    SetField(d, rg, fp, POvs > BME280_OVERSAMPLING_X16, BME280_CTRL_MEAS_ADDR,
             POvs, FieldPOvs(rg[BME280_CTRL_MEAS_ADDR]), 227, Shl(POvs, 2))

BME280_SetTOvs(d, rg, TOvs, fp) ==
    SetField(d, rg, fp, TOvs > BME280_OVERSAMPLING_X16, BME280_CTRL_MEAS_ADDR,
             TOvs, FieldTOvs(rg[BME280_CTRL_MEAS_ADDR]), 31, Shl(TOvs, 5))

BME280_SetTStby(d, rg, TStby, fp) ==
    SetField(d, rg, fp, TStby > BME280_STBY_20MS, BME280_CONFIG_ADDR,
             TStby, FieldTStby(rg[BME280_CONFIG_ADDR]), 31, Shl(TStby, 5))

BME280_SetFilter_widemask(d, rg, Filter, fp) ==
    SetField(d, rg, fp, Filter > BME280_FILTER_16, BME280_CONFIG_ADDR,
             Filter, FieldFilter(rg[BME280_CONFIG_ADDR]), 224, Shl(Filter, 2))

BME280_SetFilter(d, rg, Filter, fp) ==
    SetField(d, rg, fp, Filter > BME280_FILTER_16, BME280_CONFIG_ADDR,
             Filter, FieldFilter(rg[BME280_CONFIG_ADDR]), 227, Shl(Filter, 2))

BME280_Enable3WireSPI(d, rg, fp) ==
    SetField(d, rg, fp, FALSE, BME280_CONFIG_ADDR, 1,
             FieldSpi3w(rg[BME280_CONFIG_ADDR]), 254, 1)

BME280_Disable3WireSPI(d, rg, fp) ==
    SetField(d, rg, fp, FALSE, BME280_CONFIG_ADDR, 0,
             FieldSpi3w(rg[BME280_CONFIG_ADDR]), 254, 0)

(* BME280_SetHOvs: writes ctrl_hum without reading it, then reads ctrl_meas
   and writes it back; fp: 1 the write of ctrl_hum, 2 the read, 3 the
   write of ctrl_meas *)
BME280_SetHOvs_nolatch(d, rg, HOvs, fp) ==
    IF HOvs > BME280_OVERSAMPLING_X16 THEN Out(BME280_PARAM_ERR, <<>>, d, rg)
    ELSE
    LET s == bme280_is_sleep_mode(d)
    IN  IF s # BME280_OK THEN Out(s, <<>>, d, rg)
        ELSE Out(BusRes(fp, 1),
                 <<EvWrite(BME280_CTRL_HUM_ADDR, HOvs, BusRes(fp, 1))>>, d,
                 SensorWrite(rg, BME280_CTRL_HUM_ADDR, HOvs, BusRes(fp, 1)))

BME280_SetHOvs(d, rg, HOvs, fp) ==
    IF HOvs > BME280_OVERSAMPLING_X16 THEN Out(BME280_PARAM_ERR, <<>>, d, rg)
    ELSE
    LET s == bme280_is_sleep_mode(d)
    IN  IF s # BME280_OK THEN Out(s, <<>>, d, rg)
        ELSE
        LET e1  == EvWrite(BME280_CTRL_HUM_ADDR, HOvs, BusRes(fp, 1))
            rg1 == SensorWrite(rg, BME280_CTRL_HUM_ADDR, HOvs, BusRes(fp, 1))
            e2  == ReadOne(rg1, BME280_CTRL_MEAS_ADDR, BusRes(fp, 2))
            tmp == rg1[BME280_CTRL_MEAS_ADDR]
            e3  == EvWrite(BME280_CTRL_MEAS_ADDR, tmp, BusRes(fp, 3))
        IN  IF BusRes(fp, 1) # BME280_OK
            THEN Out(BME280_INTERFACE_ERR, <<e1>>, d, rg1)
            ELSE IF BusRes(fp, 2) # BME280_OK
            THEN Out(BME280_INTERFACE_ERR, <<e1, e2>>, d, rg1)
            ELSE Out(BusRes(fp, 3), <<e1, e2, e3>>, d,
                     SensorWrite(rg1, BME280_CTRL_MEAS_ADDR, tmp, BusRes(fp, 3)))

----------------------------------------------------------------------------
(* C integer arithmetic.  `/' and `%' of C truncate towards zero. *)
Abs(x) == IF x < 0 THEN -x ELSE x

CDiv(a, b) ==
    IF (a >= 0) = (b > 0) THEN Abs(a) \div Abs(b) ELSE -(Abs(a) \div Abs(b))

CMod(a, b) == a - b * CDiv(a, b)

(* 64-bit arithmetic (BME280_S64_t).  A value is a record [neg, mag]: its
   sign and its magnitude as a sequence of 15-bit limbs, least significant
   first, without leading zero limbs (zero is the empty sequence). *)
Limb == 32768

RECURSIVE MagNorm(_)
MagNorm(a) ==
    IF a = <<>> THEN <<>>
    ELSE IF a[Len(a)] = 0 THEN MagNorm(SubSeq(a, 1, Len(a) - 1))
    ELSE a

RECURSIVE MagOfNat(_)
MagOfNat(n) == IF n = 0 THEN <<>> ELSE <<n % Limb>> \o MagOfNat(n \div Limb)

RECURSIVE MagToNat(_)
MagToNat(a) == IF a = <<>> THEN 0 ELSE a[1] + Limb * MagToNat(Tail(a))

RECURSIVE MagAddC(_, _, _)
MagAddC(a, b, c) ==
    IF a = <<>> /\ b = <<>> THEN (IF c = 0 THEN <<>> ELSE <<c>>)
    ELSE LET x == IF a = <<>> THEN 0 ELSE a[1]
             y == IF b = <<>> THEN 0 ELSE b[1]
             s == x + y + c
         IN  <<s % Limb>> \o
             MagAddC(IF a = <<>> THEN <<>> ELSE Tail(a),
                     IF b = <<>> THEN <<>> ELSE Tail(b), s \div Limb)

MagAdd(a, b) == MagAddC(a, b, 0)

(* a < b *)
RECURSIVE MagLess(_, _)
MagLess(a, b) ==
    IF Len(a) # Len(b) THEN Len(a) < Len(b)
    ELSE IF a = <<>> THEN FALSE
    ELSE IF a[Len(a)] # b[Len(b)] THEN a[Len(a)] < b[Len(b)]
    ELSE MagLess(MagNorm(SubSeq(a, 1, Len(a) - 1)), MagNorm(SubSeq(b, 1, Len(b) - 1)))

(* a - b - c for a >= b + c, limb by limb with borrow c *)
RECURSIVE MagSubB(_, _, _)
MagSubB(a, b, c) ==
    IF a = <<>> THEN <<>>
    ELSE LET y == IF b = <<>> THEN 0 ELSE b[1]
             s == a[1] - y - c
         IN  <<IF s < 0 THEN s + Limb ELSE s>> \o
             MagSubB(Tail(a), IF b = <<>> THEN <<>> ELSE Tail(b),
                     IF s < 0 THEN 1 ELSE 0)

MagSub(a, b) == MagNorm(MagSubB(a, b, 0))

(* a * k + c for one limb k and carry c *)
RECURSIVE MagMulLimb(_, _, _)
MagMulLimb(a, k, c) ==
    IF a = <<>> THEN (IF c = 0 THEN <<>> ELSE <<c>>)
    ELSE LET s == a[1] * k + c
         IN  <<s % Limb>> \o MagMulLimb(Tail(a), k, s \div Limb)

RECURSIVE MagMul(_, _)
MagMul(a, b) ==
    IF a = <<>> \/ b = <<>> THEN <<>>
    ELSE LET rest == MagMul(a, Tail(b))
         IN  MagNorm(MagAdd(MagMulLimb(a, b[1], 0),
                            IF rest = <<>> THEN <<>> ELSE <<0>> \o rest))

(* The largest k in lo..hi with d * k <= cur, by bisection *)
RECURSIVE MagQuotLimb(_, _, _, _)
MagQuotLimb(cur, d, lo, hi) ==
    IF lo = hi THEN lo
    ELSE LET mid == (lo + hi + 1) \div 2
         IN  IF MagLess(cur, MagNorm(MagMulLimb(d, mid, 0)))
             THEN MagQuotLimb(cur, d, lo, mid - 1)
             ELSE MagQuotLimb(cur, d, mid, hi)

(* quotient and remainder of n by d, d # 0: long division, one limb of the
   quotient at a time from the most significant limb of n *)
RECURSIVE MagDivMod(_, _)
MagDivMod(n, d) ==
    IF n = <<>> THEN [q |-> <<>>, r |-> <<>>]
    ELSE LET h   == MagDivMod(Tail(n), d)
             cur == MagNorm(<<n[1]>> \o h.r)
             k   == MagQuotLimb(cur, d, 0, Limb - 1)
         IN  [q |-> MagNorm(<<k>> \o h.q),
              r |-> MagSub(cur, MagNorm(MagMulLimb(d, k, 0)))]

Big(neg, mag) == [neg |-> neg /\ mag # <<>>, mag |-> mag]

S64(x) == IF x < 0 THEN Big(TRUE, MagOfNat(-x)) ELSE Big(FALSE, MagOfNat(x))

BigNeg(a) == Big(~a.neg, a.mag)

BigAdd(a, b) ==
    IF a.neg = b.neg THEN Big(a.neg, MagAdd(a.mag, b.mag))
    ELSE IF MagLess(a.mag, b.mag) THEN Big(b.neg, MagSub(b.mag, a.mag))
    ELSE Big(a.neg, MagSub(a.mag, b.mag))

BigSub(a, b) == BigAdd(a, BigNeg(b))

BigMul(a, b) == Big(a.neg # b.neg, MagMul(a.mag, b.mag))

(* a / b of C: the quotient truncated towards zero *)
BigDiv(a, b) == Big(a.neg # b.neg, MagDivMod(a.mag, b.mag).q)

BigToInt(a) == IF a.neg THEN -MagToNat(a.mag) ELSE MagToNat(a.mag)

(* (BME280_U32_t)a for a 64-bit a: the value modulo 2^32, as a magnitude *)
TwoTo32 == MagMul(MagOfNat(65536), MagOfNat(65536))

MagLow32(m) ==
    MagNorm(<<IF Len(m) >= 1 THEN m[1] ELSE 0,
              IF Len(m) >= 2 THEN m[2] ELSE 0,
              IF Len(m) >= 3 THEN m[3] % 4 ELSE 0>>)

BigToU32(a) ==
    LET r == MagLow32(a.mag)
    IN  IF a.neg /\ r # <<>> THEN MagSub(TwoTo32, r) ELSE r

RECURSIVE MagPow2(_)
MagPow2(n) == IF n < 15 THEN <<Pow2(n)>> ELSE <<0>> \o MagPow2(n - 15)

(* The 64-bit constant 2^n *)
BigPow2(n) == Big(FALSE, MagPow2(n))

(* The ends of BME280_S32_t *)
MaxS32 == 2147483647

MinS32 == -MaxS32 - 1

(* Signed 32-bit arithmetic (BME280_S32_t).  AddOvf32, SubOvf32 and MulOvf32
   say whether the exact result leaves the type; Add32, Sub32 and Mul32 give
   the result modulo 2^32, the value a wrapping build computes. *)
AddOvf32(x, y) ==
    \/ y > 0 /\ x > MaxS32 - y
    \/ y < 0 /\ x < MinS32 - y

Add32(x, y) ==
    IF y > 0 /\ x > MaxS32 - y THEN (x + MinS32) + (y + MinS32)
    ELSE IF y < 0 /\ x < MinS32 - y THEN (x - MinS32) + (y - MinS32)
    ELSE x + y

SubOvf32(x, y) ==
    \/ y < 0 /\ x > MaxS32 + y
    \/ y > 0 /\ x < MinS32 + y

Sub32(x, y) ==
    IF y < 0 /\ x > MaxS32 + y THEN (x + MinS32) - (y - MinS32)
    ELSE IF y > 0 /\ x < MinS32 + y THEN (x - MinS32) - (y + MinS32)
    ELSE x - y

MulOvf32(x, y) ==
    ~ \/ x = 0
      \/ y = 0
      \/ x = MinS32 /\ y = 1
      \/ y = MinS32 /\ x = 1
      \/ /\ x # MinS32
         /\ y # MinS32
         /\ \/ Abs(x) <= MaxS32 \div Abs(y)
            \/ /\ (x < 0) # (y < 0)
               /\ 1073741824 % Abs(y) = 0
               /\ Abs(x) = 2 * (1073741824 \div Abs(y))

(* The two 16-bit halves of the two's complement pattern of x *)
Lo16(x) == x % 65536

Hi16(x) == (x \div 65536) % 65536

(* For 16-bit x and y: the low and the high 16 bits of the 32-bit x * y *)
MulLo16(x, y) ==
    (x * (y % 256) + ((x * (y \div 256)) % 256) * 256) % 65536

MulHi16(x, y) ==
    ((x * (y \div 256)) \div 256)
        + (((x * (y \div 256)) % 256) * 256 + x * (y % 256)) \div 65536

FromHalves(hi, lo) ==
    IF hi >= 32768 THEN (hi - 65536) * 65536 + lo ELSE hi * 65536 + lo

Mul32(x, y) ==
    IF ~MulOvf32(x, y) THEN x * y
    ELSE FromHalves((MulHi16(Lo16(x), Lo16(y)) + MulLo16(Lo16(x), Hi16(y))
                        + MulLo16(Hi16(x), Lo16(y))) % 65536,
                    MulLo16(Lo16(x), Lo16(y)))

Div32(x, y) == IF x = MinS32 THEN CDiv(x + y, y) - 1 ELSE CDiv(x, y)

U16(x) == x % 65536

----------------------------------------------------------------------------
(* Raw ADC data.  A sample is the 8 bytes the sensor holds from the pressure
   ADC register on: press_raw[3], temp_raw[3], hum_raw[2] (struct adc_regs) *)
BME280_PRESS_ADC_ADDR == 247
BME280_PRESS_ADC_LEN == 3
BME280_TEMP_ADC_ADDR == 250
BME280_TEMP_ADC_LEN == 3
BME280_HUM_ADC_ADDR == 253
BME280_HUM_ADC_LEN == 2

(* enum { read_all, read_temp, read_press, read_hum } *)
read_all == 0
read_temp == 1
read_press == 2
read_hum == 3

(* bme280_parse_press_temp_s32t; raw is 1-based *)
bme280_parse_press_temp_s32t(raw) ==
    BitAnd(BitOr(BitOr(Shl(raw[1], 12), Shl(raw[2], 4)), Shr(raw[3], 4)), 1048575)

bme280_parse_hum_s32t(raw) ==
    BitAnd(BitOr(Shl(raw[1], 8), raw[2]), 65535)

(* bme280_compensate_t_s32t: the fine temperature stored in Dev->t_fine and
   the temperature in 0.01 DegC *)
bme280_compensate_t_s32t(d, adc_T) ==
    LET var1a == CDiv(adc_T, 8) - d.trimm.dig_T1 * 2
        var1  == CDiv(var1a * d.trimm.dig_T2, 2048)
        var2a == CDiv(adc_T, 16) - d.trimm.dig_T1
        var2  == CDiv(CDiv(var2a * var2a, 4096) * d.trimm.dig_T3, 16384)
        fine  == var1 + var2
    IN  [t_fine |-> fine, temperature |-> CDiv(fine * 5 + 128, 256)]

(* bme280_compensate_p_u32t, 64-bit variant (USE_64BIT).  PressureVar1 is
   the value of var1 tested against zero, the divisor *)
PressureVar1(d) ==
    LET t     == d.trimm
        var1a == BigSub(S64(d.t_fine), S64(128000))
        var1b == BigAdd(BigDiv(BigMul(BigMul(var1a, var1a), S64(t.dig_P3)), S64(256)),
                        BigMul(BigMul(var1a, S64(t.dig_P2)), S64(4096)))
        var3  == BigPow2(47)
    IN  BigDiv(BigMul(BigAdd(var3, var1b), S64(t.dig_P1)), BigPow2(33))

(* The value of var4 after the last assignment to it in the branch taken
   when var1 is not zero; var1 is the divisor, PressureVar1(d) *)
PressureVar4(d, adc_P, var1) ==
    LET t     == d.trimm
        var1a == BigSub(S64(d.t_fine), S64(128000))
        var2a == BigMul(BigMul(var1a, var1a), S64(t.dig_P6))
        var2b == BigAdd(var2a, BigMul(BigMul(var1a, S64(t.dig_P5)), S64(131072)))
        var2c == BigAdd(var2b, BigMul(S64(t.dig_P4), BigPow2(35)))
        var4a == S64(1048576 - adc_P)
        var4b == BigDiv(BigMul(BigSub(BigMul(var4a, BigPow2(31)), var2c), S64(3125)),
                        var1)
        var1d == BigDiv(BigMul(BigMul(S64(t.dig_P9), BigDiv(var4b, S64(8192))),
                               BigDiv(var4b, S64(8192))),
                        S64(33554432))
        var2d == BigDiv(BigMul(S64(t.dig_P8), var4b), S64(524288))
    IN  BigAdd(BigDiv(BigAdd(BigAdd(var4b, var1d), var2d), S64(256)),
               BigMul(S64(t.dig_P7), S64(16)))

(* The two branches on var1 and the value assigned to pressure in each *)
PressureOfVar1(d, adc_P, var1) ==
    IF var1.mag # <<>>
    THEN BigToU32(BigDiv(BigMul(BigDiv(PressureVar4(d, adc_P, var1), S64(2)), S64(100)),
                         S64(128)))
    ELSE <<>>

bme280_compensate_p_u32t_noguard(d, adc_P) ==
    BigToU32(BigDiv(BigMul(BigDiv(PressureVar4(d, adc_P, PressureVar1(d)), S64(2)),
                           S64(100)), S64(128)))

bme280_compensate_p_u32t_q24_8(d, adc_P) ==
    IF PressureVar1(d).mag # <<>>
    THEN BigToU32(PressureVar4(d, adc_P, PressureVar1(d)))
    ELSE <<>>

(* The BME280_U32_t returned, as a magnitude *)
bme280_compensate_p_u32t(d, adc_P) == PressureOfVar1(d, adc_P, PressureVar1(d))

(* bme280_compensate_h_u32t, one operator per assignment of the source, each
   handing the variables still live to the next; o says whether a signed
   32-bit operation has overflowed so far.  HumidityVar5 gives var5 before
   the two clamps. *)

(* var5 = var3 - ((var4 * dig_H1) / 16) *)
HumSecondVar5(t, var3, var4, o) ==
    [overflow |-> \/ o
                  \/ MulOvf32(var4, t.dig_H1)
                  \/ SubOvf32(var3, Div32(Mul32(var4, t.dig_H1), 16)),
     var5 |-> Sub32(var3, Div32(Mul32(var4, t.dig_H1), 16))]

(* var4 = ((var3 / 32768) * (var3 / 32768)) / 128 *)
HumThirdVar4(t, var3, o) ==
    HumSecondVar5(t, var3,
                  Div32(Mul32(Div32(var3, 32768), Div32(var3, 32768)), 128),
                  o \/ MulOvf32(Div32(var3, 32768), Div32(var3, 32768)))

(* var3 = var5 * var2 *)
HumThirdVar3(t, var5, var2, o) ==
    HumThirdVar4(t, Mul32(var5, var2), o \/ MulOvf32(var5, var2))

(* var2 = ((var4 * dig_H2) + 8192) / 16384 *)
HumThirdVar2(t, var5, var4, o) ==
    HumThirdVar3(t, var5, Div32(Add32(Mul32(var4, t.dig_H2), 8192), 16384),
                 \/ o
                 \/ MulOvf32(var4, t.dig_H2)
                 \/ AddOvf32(Mul32(var4, t.dig_H2), 8192))

(* var4 = ((var2 * (var3 + 32768)) / 1024) + 2097152 *)
HumSecondVar4(t, var5, var2, var3, o) ==
    HumThirdVar2(t, var5,
                 Add32(Div32(Mul32(var2, Add32(var3, 32768)), 1024), 2097152),
                 \/ o
                 \/ AddOvf32(var3, 32768)
                 \/ MulOvf32(var2, Add32(var3, 32768))
                 \/ AddOvf32(Div32(Mul32(var2, Add32(var3, 32768)), 1024), 2097152))

(* var2 = (var1 * dig_H6) / 1024; var3 = (var1 * dig_H3) / 2048 *)
HumSecondVar2(t, var1, var5, o) ==
    HumSecondVar4(t, var5, Div32(Mul32(var1, t.dig_H6), 1024),
                  Div32(Mul32(var1, t.dig_H3), 2048),
                  o \/ MulOvf32(var1, t.dig_H6) \/ MulOvf32(var1, t.dig_H3))

(* var5 = (((var2 - var3) - var4) + 16384) / 32768 *)
HumFirstVar5(t, var1, var2, var3, var4, o) ==
    HumSecondVar2(t, var1,
                  Div32(Add32(Sub32(Sub32(var2, var3), var4), 16384), 32768),
                  \/ o
                  \/ SubOvf32(var2, var3)
                  \/ SubOvf32(Sub32(var2, var3), var4)
                  \/ AddOvf32(Sub32(Sub32(var2, var3), var4), 16384))

(* var2 = adc_H * 16384; var3 = dig_H4 * 1048576; var4 = dig_H5 * var1 *)
HumFirstVar2(t, adc_H, var1, o) ==
    HumFirstVar5(t, var1, Mul32(adc_H, 16384), Mul32(t.dig_H4, 1048576),
                 Mul32(t.dig_H5, var1),
                 \/ o
                 \/ MulOvf32(adc_H, 16384)
                 \/ MulOvf32(t.dig_H4, 1048576)
                 \/ MulOvf32(t.dig_H5, var1))

(* var1 = Dev->t_fine - 76800 *)
HumidityVar5(d, adc_H) ==
    HumFirstVar2(d.trimm, adc_H, Sub32(d.t_fine, 76800), SubOvf32(d.t_fine, 76800))

bme280_compensate_h_u32t_noceiling(d, adc_H) ==
    LET h     == HumidityVar5(d, adc_H)
        var5c == IF h.var5 < 0 THEN 0 ELSE h.var5
    IN  [overflow |-> h.overflow, humidity |-> Div32(var5c, 4096)]

(* bme280_compensate_h_u32t: the value returned, and whether the call went
   through a signed overflow *)
bme280_compensate_h_u32t(d, adc_H) ==
    LET h     == HumidityVar5(d, adc_H)
        var5c == IF h.var5 < 0 THEN 0 ELSE h.var5
        var5d == IF var5c > 419430400 THEN 419430400 ELSE var5c
    IN  [overflow |-> h.overflow, humidity |-> Div32(var5d, 4096)]

(* Integer results (USE_INTEGER_RESULTS): the fields of BME280_Data_t, each
   narrowed to the type of the variable it is stored in *)
bme280_convert_t_S32_struct(temp) ==
    <<I8(U8(CDiv(temp, 100))), U8(CMod(temp, 100))>>

bme280_convert_p_U32_struct(press) ==
    LET d == MagDivMod(press, MagOfNat(10000))
    IN  <<U16(MagToNat(d.q)), U16(MagToNat(d.r) \div 10)>>

bme280_convert_h_U32_struct(hum) ==
    <<U8(hum \div 1000), U16(hum % 1000)>>

(* Float results (USE_FLOATS_RESULTS): the quotient value / scale handed to
   the float division, as <<whole part, remainder, scale>> *)
bme280_convert_t_S32_float(temp_in) ==
    <<CDiv(temp_in, 100), CMod(temp_in, 100), 100>>

bme280_convert_p_U32_float(press_in) ==
    LET d == MagDivMod(press_in, MagOfNat(10000))
    IN  <<MagToNat(d.q), MagToNat(d.r), 10000>>

bme280_convert_h_U32_float(hum_in) ==
    <<hum_in \div 1000, hum_in % 1000, 1000>>

(* The bus read of bme280_read_compensate: register address and length for
   each read type, and where the bytes land in struct adc_regs (the index
   of the first byte within the 8-byte sample, 1-based) *)
AdcReadAddr(read_type) ==
    IF read_type = read_temp \/ read_type = read_hum
    THEN BME280_TEMP_ADC_ADDR ELSE BME280_PRESS_ADC_ADDR

AdcReadLen(read_type) ==
    IF read_type = read_temp THEN BME280_TEMP_ADC_LEN
    ELSE IF read_type = read_press THEN BME280_PRESS_ADC_LEN + BME280_TEMP_ADC_LEN
    ELSE IF read_type = read_hum THEN BME280_TEMP_ADC_LEN + BME280_HUM_ADC_LEN
    ELSE BME280_PRESS_ADC_LEN + BME280_TEMP_ADC_LEN + BME280_HUM_ADC_LEN

AdcReadFirst(read_type) ==
    IF read_type = read_temp \/ read_type = read_hum
    THEN BME280_PRESS_ADC_LEN + 1 ELSE 1

(* ADC samples the sensor can hold: press_raw, temp_raw, hum_raw *)
AdcSampleA == <<101, 90, 197, 126, 237, 0, 112, 0>>

AdcSamples == {AdcSampleA}

(* A second sample, every word at mid-scale, for the runs that compare two
   reads *)
AdcSampleB == <<128, 0, 0, 128, 0, 0, 128, 0>>

PairSamples == {AdcSampleA, AdcSampleB}

Compensate_notemp(tr, adc) ==
    LET adc_T == bme280_parse_press_temp_s32t(SubSeq(adc, 4, 6))
        t     == bme280_compensate_t_s32t([trimm |-> tr, t_fine |-> 0], adc_T)
        d1    == [trimm |-> tr, t_fine |-> 0]
        adc_P == bme280_parse_press_temp_s32t(SubSeq(adc, 1, 3))
        adc_H == bme280_parse_hum_s32t(SubSeq(adc, 7, 8))
    IN  [t_fine |-> t.t_fine, temp |-> t.temperature,
         press |-> bme280_compensate_p_u32t(d1, adc_P),
         hum |-> bme280_compensate_h_u32t(d1, adc_H).humidity]

(* The parse and compensation steps of bme280_read_compensate for
   calibration data tr and sample adc: the temperature first, which sets
   t_fine, then pressure and humidity with that t_fine *)
Compensate(tr, adc) ==
    LET adc_T == bme280_parse_press_temp_s32t(SubSeq(adc, 4, 6))
        t     == bme280_compensate_t_s32t([trimm |-> tr, t_fine |-> 0], adc_T)
        d1    == [trimm |-> tr, t_fine |-> t.t_fine]
        adc_P == bme280_parse_press_temp_s32t(SubSeq(adc, 1, 3))
        adc_H == bme280_parse_hum_s32t(SubSeq(adc, 7, 8))
    IN  [t_fine |-> t.t_fine, temp |-> t.temperature,
         press |-> bme280_compensate_p_u32t(d1, adc_P),
         hum |-> bme280_compensate_h_u32t(d1, adc_H).humidity]

(* Compensate, computed once for each calibration image and sample *)
Compensated ==
    [tr \in {ParseTrimm(img) : img \in CalibImages}, adc \in PairSamples |->
        Compensate(tr, adc)]

(* The result of bme280_read_compensate once the bus read e has returned r
   and the sample has been compensated to c *)
ReadCompensated(read_type, d, r, e, c) ==
    IF r # BME280_OK
    THEN [ret |-> BME280_INTERFACE_ERR, trace |-> <<e>>, dev |-> d,
          temp |-> 0, press |-> <<>>, hum |-> 0]
    ELSE [ret |-> BME280_OK, trace |-> <<e>>,
          dev |-> [d EXCEPT !.t_fine = c.t_fine],
          temp |-> c.temp,
          press |-> IF read_type = read_press \/ read_type = read_all
                    THEN c.press ELSE <<>>,
          hum |-> IF read_type = read_hum \/ read_type = read_all
                  THEN c.hum ELSE 0]

bme280_read_compensate_stale(read_type, d, r, adc) ==
    ReadCompensated(read_type, d, r,
                    EvRead(AdcReadAddr(read_type), AdcReadLen(read_type), r,
                           SubSeq(adc, AdcReadFirst(read_type),
                                  AdcReadFirst(read_type) + AdcReadLen(read_type) - 1)),
                    [Compensated[d.trimm, adc] EXCEPT
                        !.press = bme280_compensate_p_u32t(d,
                                      bme280_parse_press_temp_s32t(SubSeq(adc, 1, 3))),
                        !.hum = bme280_compensate_h_u32t(d,
                                    bme280_parse_hum_s32t(SubSeq(adc, 7, 8))).humidity])

(* bme280_read_compensate: r is the result of the bus read, adc the sample
   the sensor holds.  temp, press, hum are the values stored through the
   pointers (press and hum only for the read types that compute them). *)
bme280_read_compensate(read_type, d, r, adc) ==
    ReadCompensated(read_type, d, r,
                    EvRead(AdcReadAddr(read_type), AdcReadLen(read_type), r,
                           SubSeq(adc, AdcReadFirst(read_type),
                                  AdcReadFirst(read_type) + AdcReadLen(read_type) - 1)),
                    Compensated[d.trimm, adc])

(* The values a read stores through its output pointers: c is the result of
   bme280_read_compensate, float selects the _F variant *)
ReadOutput(read_type, float, c) ==
    LET t == IF float THEN bme280_convert_t_S32_float(c.temp)
             ELSE bme280_convert_t_S32_struct(c.temp)
        p == IF float THEN bme280_convert_p_U32_float(c.press)
             ELSE bme280_convert_p_U32_struct(c.press)
        h == IF float THEN bme280_convert_h_U32_float(c.hum)
             ELSE bme280_convert_h_U32_struct(c.hum)
    IN  IF read_type = read_all THEN t \o p \o h
        ELSE IF read_type = read_temp THEN t
        ELSE IF read_type = read_press THEN p
        ELSE h

----------------------------------------------------------------------------
(* The end of a read, normal or forced: tr is the trace so far, c the
   result of bme280_read_compensate; a successful read stores the converted
   values *)
ReadResult(rg, read_type, float, tr, c) ==
    IF c.ret # BME280_OK THEN Out(c.ret, tr \o c.trace, c.dev, rg)
    ELSE OutV(BME280_OK, tr \o c.trace, c.dev, rg, ReadOutput(read_type, float, c))

(* Reads in normal mode.  The common shape of the eight functions; r is the
   result of the bus read, adc the sample the sensor holds *)
ReadLast(d, rg, read_type, float, r, adc) ==
    IF bme280_is_normal_mode(d) # BME280_OK
    THEN Out(bme280_is_normal_mode(d), <<>>, d, rg)
    ELSE ReadResult(rg, read_type, float, <<>>,
                    bme280_read_compensate(read_type, d, r, adc))

BME280_ReadAllLast(d, rg, r, adc) == ReadLast(d, rg, read_all, FALSE, r, adc)
BME280_ReadTempLast(d, rg, r, adc) == ReadLast(d, rg, read_temp, FALSE, r, adc)
BME280_ReadPressLast(d, rg, r, adc) == ReadLast(d, rg, read_press, FALSE, r, adc)
BME280_ReadHumLast(d, rg, r, adc) == ReadLast(d, rg, read_hum, FALSE, r, adc)
BME280_ReadAllLast_F(d, rg, r, adc) == ReadLast(d, rg, read_all, TRUE, r, adc)
BME280_ReadTempLast_F(d, rg, r, adc) == ReadLast(d, rg, read_temp, TRUE, r, adc)
BME280_ReadPressLast_F(d, rg, r, adc) == ReadLast(d, rg, read_press, TRUE, r, adc)
BME280_ReadHumLast_F(d, rg, r, adc) == ReadLast(d, rg, read_hum, TRUE, r, adc)

----------------------------------------------------------------------------
(* Reads in forced mode *)
bme280_osrs_to_oversampling_x8(osrs) ==
    IF osrs <= BME280_OVERSAMPLING_X2 THEN osrs
    ELSE IF osrs = BME280_OVERSAMPLING_X4 THEN 4
    ELSE IF osrs = BME280_OVERSAMPLING_X8 THEN 8
    ELSE osrs

bme280_osrs_to_oversampling(osrs) ==
    IF osrs <= BME280_OVERSAMPLING_X2 THEN osrs
    ELSE IF osrs = BME280_OVERSAMPLING_X4 THEN 4
    ELSE IF osrs = BME280_OVERSAMPLING_X8 THEN 8
    ELSE 16

ForcedDelay_no58(osrs_t, osrs_p, osrs_h) ==
    U8(((125 + (230 * bme280_osrs_to_oversampling(osrs_t))
             + ((230 * bme280_osrs_to_oversampling(osrs_p)) + 58)
             + (230 * bme280_osrs_to_oversampling(osrs_h))) \div 100) + 1)

ForcedDelay_wide(osrs_t, osrs_p, osrs_h) ==
    U8(((125 + (530 * bme280_osrs_to_oversampling(osrs_t))
             + ((530 * bme280_osrs_to_oversampling(osrs_p)) + 58)
             + ((530 * bme280_osrs_to_oversampling(osrs_h)) + 58)) \div 100) + 1)

(* The delay computed by bme280_set_forced_mode from the three register
   codes, as stored in the uint8_t *delay *)
ForcedDelay(osrs_t, osrs_p, osrs_h) ==
    U8(((125 + (230 * bme280_osrs_to_oversampling(osrs_t))
             + ((230 * bme280_osrs_to_oversampling(osrs_p)) + 58)
             + ((230 * bme280_osrs_to_oversampling(osrs_h)) + 58)) \div 100) + 1)

BusyBits_measuring(status) == BitAnd(status, 1)

(* The busy bits of a status byte: "measuring" (bit 0) and "im_update"
   (bit 3) *)
BusyBits(status) == BitAnd(status, 9)

(* bme280_set_forced_mode; r is the result of the 3-byte read, status the
   byte the status register returns in it, wres the result of the write *)
bme280_set_forced_mode(d, rg, r, status, wres) ==
    LET buff  == <<rg[BME280_CTRL_HUM_ADDR], status, rg[BME280_CTRL_MEAS_ADDR]>>
        e1    == EvRead(BME280_CTRL_HUM_ADDR, 3, r, buff)
        delay == ForcedDelay(BitAnd(Shr(buff[3], 5), 7), BitAnd(Shr(buff[3], 2), 7),
                             BitAnd(buff[1], 7))
        nv    == BitOr(BitAnd(buff[3], 252), BME280_FORCEDMODE)
        e2    == EvWrite(BME280_CTRL_MEAS_ADDR, nv, wres)
    IN  IF r # BME280_OK
        THEN [ret |-> BME280_INTERFACE_ERR, trace |-> <<e1>>, regs |-> rg, delay |-> 0]
        ELSE IF BusyBits(buff[2]) # 0
        THEN [ret |-> BME280_BUSY_ERR, trace |-> <<e1>>, regs |-> rg, delay |-> 0]
        ELSE IF BitAnd(buff[3], 3) # BME280_SLEEPMODE
        THEN [ret |-> BME280_CONDITION_ERR, trace |-> <<e1>>, regs |-> rg, delay |-> 0]
        ELSE [ret |-> IF wres # BME280_OK THEN BME280_INTERFACE_ERR ELSE BME280_OK,
              trace |-> <<e1, e2>>,
              regs |-> SensorWrite(rg, BME280_CTRL_MEAS_ADDR, nv, wres),
              delay |-> delay]

bme280_busy_check_nobusy(r, status) ==
    LET e == EvRead(BME280_STATUS_ADDR, 1, r, <<status>>)
    IN  IF r # BME280_OK THEN [ret |-> BME280_INTERFACE_ERR, trace |-> <<e>>]
        ELSE [ret |-> BME280_OK, trace |-> <<e>>]

(* bme280_busy_check; r is the result of the read, status the byte read *)
bme280_busy_check(r, status) ==
    LET e == EvRead(BME280_STATUS_ADDR, 1, r, <<status>>)
    IN  IF r # BME280_OK THEN [ret |-> BME280_INTERFACE_ERR, trace |-> <<e>>]
        ELSE IF BusyBits(status) # 0 THEN [ret |-> BME280_BUSY_ERR, trace |-> <<e>>]
        ELSE [ret |-> BME280_OK, trace |-> <<e>>]

ReadForce_tracksmode(d, rg, read_type, float, fp, st1, st2, adc) ==
    LET s == bme280_is_sleep_mode(d)
        m == [d EXCEPT !.mode = BME280_FORCEDMODE]
    IN  IF s # BME280_OK THEN Out(s, <<>>, d, rg)
        ELSE
        LET f == bme280_set_forced_mode(d, rg, BusRes(fp, 1), st1, BusRes(fp, 2))
        IN  IF f.ret # BME280_OK THEN Out(f.ret, f.trace, d, f.regs)
            ELSE
            LET b  == bme280_busy_check(BusRes(fp, 3), st2)
                tr == f.trace \o <<EvDelay(f.delay)>> \o b.trace
            IN  IF b.ret # BME280_OK THEN Out(b.ret, tr, m, f.regs)
                ELSE ReadResult(f.regs, read_type, float, tr,
                                bme280_read_compensate(read_type, m, BusRes(fp, 4), adc))

(* The common shape of the eight forced reads.  fp is the index of the first
   failing bus operation (1 the 3-byte read, 2 the write of ctrl_meas, 3 the
   status read, 4 the ADC read; 0 none), st1 and st2 the status bytes the
   sensor returns in the first read and in the poll, adc its sample *)
ReadForce(d, rg, read_type, float, fp, st1, st2, adc) ==
    LET s == bme280_is_sleep_mode(d)
    IN  IF s # BME280_OK THEN Out(s, <<>>, d, rg)
        ELSE
        LET f == bme280_set_forced_mode(d, rg, BusRes(fp, 1), st1, BusRes(fp, 2))
        IN  IF f.ret # BME280_OK THEN Out(f.ret, f.trace, d, f.regs)
            ELSE
            LET b  == bme280_busy_check(BusRes(fp, 3), st2)
                tr == f.trace \o <<EvDelay(f.delay)>> \o b.trace
            IN  IF b.ret # BME280_OK THEN Out(b.ret, tr, d, f.regs)
                ELSE ReadResult(f.regs, read_type, float, tr,
                                bme280_read_compensate(read_type, d, BusRes(fp, 4), adc))

BME280_ReadAllForce(d, rg, fp, st1, st2, adc) ==
    ReadForce(d, rg, read_all, FALSE, fp, st1, st2, adc)
BME280_ReadTempForce(d, rg, fp, st1, st2, adc) ==
    ReadForce(d, rg, read_temp, FALSE, fp, st1, st2, adc)
BME280_ReadPressForce(d, rg, fp, st1, st2, adc) ==
    ReadForce(d, rg, read_press, FALSE, fp, st1, st2, adc)
BME280_ReadHumForce(d, rg, fp, st1, st2, adc) ==
    ReadForce(d, rg, read_hum, FALSE, fp, st1, st2, adc)
BME280_ReadAllForce_F(d, rg, fp, st1, st2, adc) ==
    ReadForce(d, rg, read_all, TRUE, fp, st1, st2, adc)
BME280_ReadTempForce_F(d, rg, fp, st1, st2, adc) ==
    ReadForce(d, rg, read_temp, TRUE, fp, st1, st2, adc)
BME280_ReadPressForce_F(d, rg, fp, st1, st2, adc) ==
    ReadForce(d, rg, read_press, TRUE, fp, st1, st2, adc)
BME280_ReadHumForce_F(d, rg, fp, st1, st2, adc) ==
    ReadForce(d, rg, read_hum, TRUE, fp, st1, st2, adc)

----------------------------------------------------------------------------
(* Inputs the caller and the bus can supply *)
Drivers ==
    {NullDriver, FullDriver(1), FullDriver(2),
     [FullDriver(1) EXCEPT !.write = FALSE],
     [FullDriver(1) EXCEPT !.read = FALSE],
     [FullDriver(1) EXCEPT !.delay = FALSE]}

IdBytes == {BME280_ID, 88, 0}

(* What the caller passes to BME280_Init and what the bus does during the
   call: fp is the index of the first failing bus operation (1 the reset
   write, 2 the id read, 3 and 4 the calibration reads; 0 none), id the
   byte the id register returns, img the calibration image of the sensor.
   A value that is never delivered, because the driver is rejected or
   because an earlier failure ends the call, is fixed. *)
InitRuns ==
    {x \in [Driver : Drivers, fp : 0..4, id : IdBytes, img : CalibImages] :
        /\ InitParamBad(x.Driver) => x.fp = 0
        /\ (InitParamBad(x.Driver) \/ x.fp \in {1, 2}) => x.id = BME280_ID
        /\ (InitParamBad(x.Driver) \/ x.fp \in {1, 2, 3}) => x.img = CalibImageA}

(* How far beyond the largest enumerated value the arguments tried go *)
MaxExcess == 1

OvsArgs ==
    {0, BME280_OVERSAMPLING_X16} \cup
    {BME280_OVERSAMPLING_X16 + k : k \in 1..MaxExcess}

TStbyArgs == {0, BME280_STBY_20MS} \cup {BME280_STBY_20MS + k : k \in 1..MaxExcess}

FilterArgs == {0, BME280_FILTER_16} \cup {BME280_FILTER_16 + k : k \in 1..MaxExcess}

ModeArgs ==
    {BME280_SLEEPMODE, BME280_FORCEDMODE, 2, BME280_NORMALMODE} \cup
    {BME280_NORMALMODE + k : k \in 1..MaxExcess}

Configs ==
    {NullConfig} \cup
    {MkConfig(BME280_OVERSAMPLING_X16, BME280_OVERSAMPLING_X16,
              BME280_OVERSAMPLING_X16, BME280_STBY_20MS, BME280_FILTER_16, spi, m) :
        spi \in {0, 1}, m \in {BME280_SLEEPMODE, BME280_FORCEDMODE, 2,
                                BME280_NORMALMODE, 255}}

(* Byte values a field of a configuration can hold: in range, the largest
   code, one bit above the field, and every bit set *)
CodecBytes == {0, 5, 8, 255}

CodecConfigs ==
    {MkConfig(t, p, h, stby, filter, spi, m) :
        t \in CodecBytes, p \in CodecBytes, h \in CodecBytes,
        stby \in CodecBytes, filter \in CodecBytes, spi \in CodecBytes,
        m \in CodecBytes \cup {BME280_FORCEDMODE, 2, BME280_NORMALMODE}}

(* Status bytes the sensor can return: idle, measuring, copying its NVM
   image, and idle with every other bit set *)
StatusBytes == {0, 1, 8, 246}

(* What the bus does during one forced read: fp is the index of the first
   failing bus operation (0 none), st1 and st2 the status bytes returned by
   the 3-byte read and by the status poll.  A byte that is never delivered,
   because its read fails or because an earlier failure or busy status ends
   the call before it, is fixed at 0. *)
ForcedRuns ==
    {x \in [fp : 0..4, st1 : StatusBytes, st2 : StatusBytes] :
        /\ (x.fp = 1 => x.st1 = 0)
        /\ ((x.fp \in {1, 2, 3} \/ x.st1 \in {1, 8}) => x.st2 = 0)}

(* The runs of a forced read on device d: a call rejected before its first
   bus operation meets no bus *)
ForcedRunsOf(d) ==
    IF bme280_is_sleep_mode(d) = BME280_OK THEN ForcedRuns
    ELSE {[fp |-> 0, st1 |-> 0, st2 |-> 0]}

----------------------------------------------------------------------------
(* The record of a call *)
InitDev == [initialized |-> not_initialized, mode |-> sleep_mode,
            driver |-> NullDriver, trimm |-> ZeroTrimm, t_fine |-> 0]

Call(op, arg, cfg, drv, o, pre) ==
    [op |-> op, arg |-> arg, cfg |-> cfg, drv |-> drv, ret |-> o.ret,
     trace |-> o.trace, out |-> o.out, pre |-> pre]

NoCall == Call("none", 0, NullConfig, NullDriver, Out(BME280_OK, <<>>, InitDev, ResetRegs),
               InitDev)

(* A call runs its handler to completion and returns to the caller *)
Apply(op, arg, cfg, drv, o) ==
    /\ pc = "call"
    /\ ~fault
    /\ pc' = "ret"
    /\ last' = Call(op, arg, cfg, drv, o, Dev)
    /\ initialized' = o.dev.initialized
    /\ mode' = o.dev.mode
    /\ driver' = o.dev.driver
    /\ trimm' = o.dev.trimm
    /\ t_fine' = o.dev.t_fine
    /\ regs' = o.regs
    /\ UNCHANGED <<prev, fault>>

CallInit ==
    /\ pc = "call"
    /\ \E x \in InitRuns :
           Apply("Init", 0, NullConfig, x.Driver,
                 BME280_Init(Dev, regs, x.Driver, x.fp, x.id, x.img))

(* BME280_Reset reads Dev->driver->write: with a null Dev->driver the call
   never returns *)
CallReset ==
    \/ /\ ~driver.null
       /\ \E wres \in {BusOk, BusFail} :
            Apply("Reset", 0, NullConfig, NullDriver, BME280_Reset(Dev, regs, wres))
    \/ /\ driver.null
       /\ pc = "call"
       /\ ~fault
       /\ fault' = TRUE
       /\ UNCHANGED <<initialized, mode, driver, trimm, t_fine, regs, pc, last, prev>>

CallConfigureAll ==
    /\ pc = "call"
    /\ \E Config \in Configs, fp \in 0..3 :
           Apply("ConfigureAll", 0, Config, NullDriver,
                 BME280_ConfigureAll(Dev, regs, Config, fp))

CallGetMode ==
    /\ pc = "call"
    /\ \E r \in {BusOk, BusFail} :
           Apply("GetMode", 0, NullConfig, NullDriver, BME280_GetMode(Dev, regs, r))

CallGetPOvs ==
    /\ pc = "call"
    /\ \E r \in {BusOk, BusFail} :
           Apply("GetPOvs", 0, NullConfig, NullDriver, BME280_GetPOvs(Dev, regs, r))

CallGetTOvs ==
    /\ pc = "call"
    /\ \E r \in {BusOk, BusFail} :
           Apply("GetTOvs", 0, NullConfig, NullDriver, BME280_GetTOvs(Dev, regs, r))

CallGetHOvs ==
    /\ pc = "call"
    /\ \E r \in {BusOk, BusFail} :
           Apply("GetHOvs", 0, NullConfig, NullDriver, BME280_GetHOvs(Dev, regs, r))

CallGetTStby ==
    /\ pc = "call"
    /\ \E r \in {BusOk, BusFail} :
           Apply("GetTStby", 0, NullConfig, NullDriver, BME280_GetTStby(Dev, regs, r))

CallGetTFilter ==
    /\ pc = "call"
    /\ \E r \in {BusOk, BusFail} :
           Apply("GetTFilter", 0, NullConfig, NullDriver, BME280_GetTFilter(Dev, regs, r))

CallIs3WireSPIEnabled ==
    /\ pc = "call"
    /\ \E r \in {BusOk, BusFail} :
           Apply("Is3WireSPIEnabled", 0, NullConfig, NullDriver,
                 BME280_Is3WireSPIEnabled(Dev, regs, r))

CallSetMode ==
    /\ pc = "call"
    /\ \E Mode \in ModeArgs, fp \in 0..2 :
           Apply("SetMode", Mode, NullConfig, NullDriver, BME280_SetMode(Dev, regs, Mode, fp))

CallSetPOvs ==
    /\ pc = "call"
    /\ \E POvs \in OvsArgs, fp \in 0..2 :
           Apply("SetPOvs", POvs, NullConfig, NullDriver, BME280_SetPOvs(Dev, regs, POvs, fp))

CallSetTOvs ==
    /\ pc = "call"
    /\ \E TOvs \in OvsArgs, fp \in 0..2 :
           Apply("SetTOvs", TOvs, NullConfig, NullDriver, BME280_SetTOvs(Dev, regs, TOvs, fp))

CallSetHOvs ==
    /\ pc = "call"
    /\ \E HOvs \in OvsArgs, fp \in 0..3 :
           Apply("SetHOvs", HOvs, NullConfig, NullDriver, BME280_SetHOvs(Dev, regs, HOvs, fp))

CallSetTStby ==
    /\ pc = "call"
    /\ \E TStby \in TStbyArgs, fp \in 0..2 :
           Apply("SetTStby", TStby, NullConfig, NullDriver,
                 BME280_SetTStby(Dev, regs, TStby, fp))

CallSetFilter ==
    /\ pc = "call"
    /\ \E Filter \in FilterArgs, fp \in 0..2 :
           Apply("SetFilter", Filter, NullConfig, NullDriver,
                 BME280_SetFilter(Dev, regs, Filter, fp))

CallEnable3WireSPI ==
    /\ pc = "call"
    /\ \E fp \in 0..2 :
           Apply("Enable3WireSPI", 1, NullConfig, NullDriver,
                 BME280_Enable3WireSPI(Dev, regs, fp))

CallDisable3WireSPI ==
    /\ pc = "call"
    /\ \E fp \in 0..2 :
           Apply("Disable3WireSPI", 0, NullConfig, NullDriver,
                 BME280_Disable3WireSPI(Dev, regs, fp))

CallReadAllLast ==
    /\ pc = "call"
    /\ \E r \in {BusOk, BusFail}, adc \in AdcSamples :
           Apply("ReadAllLast", 0, NullConfig, NullDriver,
                 BME280_ReadAllLast(Dev, regs, r, adc))

CallReadAllLast_F ==
    /\ pc = "call"
    /\ \E r \in {BusOk, BusFail}, adc \in AdcSamples :
           Apply("ReadAllLast_F", 0, NullConfig, NullDriver,
                 BME280_ReadAllLast_F(Dev, regs, r, adc))

CallReadTempLast ==
    /\ pc = "call"
    /\ \E r \in {BusOk, BusFail}, adc \in AdcSamples :
           Apply("ReadTempLast", 0, NullConfig, NullDriver,
                 BME280_ReadTempLast(Dev, regs, r, adc))

CallReadTempLast_F ==
    /\ pc = "call"
    /\ \E r \in {BusOk, BusFail}, adc \in AdcSamples :
           Apply("ReadTempLast_F", 0, NullConfig, NullDriver,
                 BME280_ReadTempLast_F(Dev, regs, r, adc))

CallReadPressLast ==
    /\ pc = "call"
    /\ \E r \in {BusOk, BusFail}, adc \in AdcSamples :
           Apply("ReadPressLast", 0, NullConfig, NullDriver,
                 BME280_ReadPressLast(Dev, regs, r, adc))

CallReadPressLast_F ==
    /\ pc = "call"
    /\ \E r \in {BusOk, BusFail}, adc \in AdcSamples :
           Apply("ReadPressLast_F", 0, NullConfig, NullDriver,
                 BME280_ReadPressLast_F(Dev, regs, r, adc))

CallReadHumLast ==
    /\ pc = "call"
    /\ \E r \in {BusOk, BusFail}, adc \in AdcSamples :
           Apply("ReadHumLast", 0, NullConfig, NullDriver,
                 BME280_ReadHumLast(Dev, regs, r, adc))

CallReadHumLast_F ==
    /\ pc = "call"
    /\ \E r \in {BusOk, BusFail}, adc \in AdcSamples :
           Apply("ReadHumLast_F", 0, NullConfig, NullDriver,
                 BME280_ReadHumLast_F(Dev, regs, r, adc))

CallReadAllForce ==
    /\ pc = "call"
    /\ \E x \in ForcedRunsOf(Dev), adc \in AdcSamples :
           Apply("ReadAllForce", 0, NullConfig, NullDriver,
                 BME280_ReadAllForce(Dev, regs, x.fp, x.st1, x.st2, adc))

CallReadAllForce_F ==
    /\ pc = "call"
    /\ \E x \in ForcedRunsOf(Dev), adc \in AdcSamples :
           Apply("ReadAllForce_F", 0, NullConfig, NullDriver,
                 BME280_ReadAllForce_F(Dev, regs, x.fp, x.st1, x.st2, adc))

CallReadTempForce ==
    /\ pc = "call"
    /\ \E x \in ForcedRunsOf(Dev), adc \in AdcSamples :
           Apply("ReadTempForce", 0, NullConfig, NullDriver,
                 BME280_ReadTempForce(Dev, regs, x.fp, x.st1, x.st2, adc))

CallReadTempForce_F ==
    /\ pc = "call"
    /\ \E x \in ForcedRunsOf(Dev), adc \in AdcSamples :
           Apply("ReadTempForce_F", 0, NullConfig, NullDriver,
                 BME280_ReadTempForce_F(Dev, regs, x.fp, x.st1, x.st2, adc))

CallReadPressForce ==
    /\ pc = "call"
    /\ \E x \in ForcedRunsOf(Dev), adc \in AdcSamples :
           Apply("ReadPressForce", 0, NullConfig, NullDriver,
                 BME280_ReadPressForce(Dev, regs, x.fp, x.st1, x.st2, adc))

CallReadPressForce_F ==
    /\ pc = "call"
    /\ \E x \in ForcedRunsOf(Dev), adc \in AdcSamples :
           Apply("ReadPressForce_F", 0, NullConfig, NullDriver,
                 BME280_ReadPressForce_F(Dev, regs, x.fp, x.st1, x.st2, adc))

CallReadHumForce ==
    /\ pc = "call"
    /\ \E x \in ForcedRunsOf(Dev), adc \in AdcSamples :
           Apply("ReadHumForce", 0, NullConfig, NullDriver,
                 BME280_ReadHumForce(Dev, regs, x.fp, x.st1, x.st2, adc))

CallReadHumForce_F ==
    /\ pc = "call"
    /\ \E x \in ForcedRunsOf(Dev), adc \in AdcSamples :
           Apply("ReadHumForce_F", 0, NullConfig, NullDriver,
                 BME280_ReadHumForce_F(Dev, regs, x.fp, x.st1, x.st2, adc))

(* The sensor ends a forced measurement on its own: the mode field of
   ctrl_meas goes from forced (0b01 or 0b10) back to sleep *)
SensorReturnsToSleep ==
    /\ pc = "call"
    /\ ~fault
    /\ BitAnd(regs[BME280_CTRL_MEAS_ADDR], 3) \in {1, 2}
    /\ regs' = [regs EXCEPT ![BME280_CTRL_MEAS_ADDR] = BitAnd(@, 252)]
    /\ UNCHANGED <<initialized, mode, driver, trimm, t_fine, pc, last, prev, fault>>

(* The caller takes the result and is ready for its next call *)
Return ==
    /\ pc = "ret"
    /\ pc' = "call"
    /\ last' = NoCall
    /\ prev' = NoCall
    /\ UNCHANGED <<initialized, mode, driver, trimm, t_fine, regs, fault>>

Init ==
    /\ initialized = not_initialized
    /\ mode = sleep_mode
    /\ driver = NullDriver
    /\ trimm = ZeroTrimm
    /\ t_fine = 0
    /\ regs = ResetRegs
    /\ pc = "call"
    /\ last = NoCall
    /\ prev = NoCall
    /\ fault = FALSE

Next ==
    \/ CallInit
    \/ CallReset
    \/ CallConfigureAll
    \/ CallGetMode
    \/ CallGetPOvs
    \/ CallGetTOvs
    \/ CallGetHOvs
    \/ CallGetTStby
    \/ CallGetTFilter
    \/ CallIs3WireSPIEnabled
    \/ CallSetMode
    \/ CallSetPOvs
    \/ CallSetTOvs
    \/ CallSetHOvs
    \/ CallSetTStby
    \/ CallSetFilter
    \/ CallEnable3WireSPI
    \/ CallDisable3WireSPI
    \/ CallReadAllLast
    \/ CallReadAllLast_F
    \/ CallReadTempLast
    \/ CallReadTempLast_F
    \/ CallReadPressLast
    \/ CallReadPressLast_F
    \/ CallReadHumLast
    \/ CallReadHumLast_F
    \/ CallReadAllForce
    \/ CallReadAllForce_F
    \/ CallReadTempForce
    \/ CallReadTempForce_F
    \/ CallReadPressForce
    \/ CallReadPressForce_F
    \/ CallReadHumForce
    \/ CallReadHumForce_F
    \/ SensorReturnsToSleep
    \/ Return

Spec == Init /\ [][Next]_vars

----------------------------------------------------------------------------
(* Two calls in a row: a specification of the field setters alone, on an
   initialized device in sleep mode, in which the caller keeps the record
   of the previous call next to the one that has just returned. *)
ReturnKeep ==
    /\ pc = "ret"
    /\ pc' = "call"
    /\ prev' = last
    /\ last' = NoCall
    /\ UNCHANGED <<initialized, mode, driver, trimm, t_fine, regs, fault>>

ConfiguredRegs ==
    LET c == MkConfig(BME280_OVERSAMPLING_X16, BME280_OVERSAMPLING_X16,
                      BME280_OVERSAMPLING_X16, BME280_STBY_20MS, BME280_FILTER_16,
                      1, BME280_SLEEPMODE)
    IN  [ResetRegs EXCEPT ![BME280_CTRL_HUM_ADDR] = PackCtrlHum(c),
                          ![BME280_CTRL_MEAS_ADDR] = PackCtrlMeas(c),
                          ![BME280_CONFIG_ADDR] = PackConfig(c)]

InitTwice ==
    /\ initialized = is_initialized
    /\ mode = sleep_mode
    /\ driver = FullDriver(1)
    /\ trimm = ParseTrimm(CalibImageA)
    /\ t_fine = 0
    /\ regs \in {ResetRegs, ConfiguredRegs}
    /\ pc = "call"
    /\ last = NoCall
    /\ prev = NoCall
    /\ fault = FALSE

NextTwice ==
    \/ CallSetPOvs
    \/ CallSetTOvs
    \/ CallSetHOvs
    \/ CallSetTStby
    \/ CallSetFilter
    \/ CallEnable3WireSPI
    \/ CallDisable3WireSPI
    \/ ReturnKeep

SpecTwice == InitTwice /\ [][NextTwice]_vars

----------------------------------------------------------------------------
(* Vocabulary of the properties *)
Returned == pc = "ret"

FieldSetterOps ==
    {"SetPOvs", "SetTOvs", "SetHOvs", "SetTStby", "SetFilter",
     "Enable3WireSPI", "Disable3WireSPI"}

(* The argument of a field-setter call is within its enumerated range *)
ArgInRange(c) ==
    CASE c.op \in {"SetPOvs", "SetTOvs", "SetHOvs"} -> c.arg <= 5
      [] c.op = "SetTStby" -> c.arg <= 7
      [] c.op = "SetFilter" -> c.arg <= 4
      [] c.op = "SetMode" -> c.arg \in {0, 1, 3}
      [] c.op = "ConfigureAll" -> ~c.cfg.null
      [] OTHER -> TRUE

Events(c, kind) == {i \in DOMAIN c.trace : c.trace[i].k = kind}

NumWrites(c) == Cardinality(Events(c, "w"))

NumReads(c) == Cardinality(Events(c, "r"))

NumDelays(c) == Cardinality(Events(c, "d"))

NoBusFailure(c) == \A i \in DOMAIN c.trace : c.trace[i].res = 0

(* The device structure is as it was before the call *)
DevUnchanged == Dev = last.pre

----------------------------------------------------------------------------
(* C1: a field setter or ConfigureAll called with valid arguments on a device
   that is not initialized, or whose local mode is not sleep, fails with
   NO_INIT_ERR resp. CONDITION_ERR, issues no bus read and no bus write and
   leaves the device structure unchanged. *)
C1_SetterPrecondition ==
    (/\ Returned
     /\ last.op \in FieldSetterOps \cup {"ConfigureAll"}
     /\ ArgInRange(last)
     /\ (last.pre.initialized = 0 \/ last.pre.mode # 0))
    => /\ last.ret = (IF last.pre.initialized = 0 THEN -4 ELSE -5)
       /\ last.trace = <<>>
       /\ DevUnchanged

C1_Witness ==
    /\ Returned
    /\ last.op = "SetFilter"
    /\ last.arg = 4
    /\ last.pre.initialized = 1
    /\ last.pre.mode = 3
    /\ last.ret = -5

C1_WitnessNoInit ==
    /\ Returned
    /\ last.op = "ConfigureAll"
    /\ ~last.cfg.null
    /\ last.pre.initialized = 0
    /\ last.ret = -4

(* C2 as stated: every setter call, SetMode included and with any argument
   value, made while the local mode is not sleep fails with CONDITION_ERR and
   performs no bus write. *)
C2_Original ==
    (/\ Returned
     /\ last.op \in FieldSetterOps \cup {"SetMode"}
     /\ last.pre.mode # 0)
    => /\ last.ret = -5
       /\ NumWrites(last) = 0

(* C2 amended: a field-setter call made while the local mode is not sleep
   performs no bus operation; it fails with CONDITION_ERR when its argument
   is within range and with PARAM_ERR when it is not. *)
C2_FieldSetterNotSleep ==
    (/\ Returned
     /\ last.op \in FieldSetterOps
     /\ last.pre.mode # 0)
    => /\ last.ret = (IF ArgInRange(last) THEN -5 ELSE -1)
       /\ NumWrites(last) = 0
       /\ NumReads(last) = 0

C2_Witness ==
    /\ Returned
    /\ last.op = "SetTOvs"
    /\ last.arg = 6
    /\ last.pre.mode = 1
    /\ last.ret = -1

C2_WitnessInRange ==
    /\ Returned
    /\ last.op = "SetHOvs"
    /\ last.arg = 5
    /\ last.pre.mode = 3
    /\ last.ret = -5

(* The field a setter call targets, taken from a register byte r *)
TargetField(c, r) ==
    CASE c.op = "SetPOvs" -> (r \div 4) % 8
      [] c.op = "SetTOvs" -> (r \div 32) % 8
      [] c.op = "SetHOvs" -> r % 8
      [] c.op = "SetTStby" -> (r \div 32) % 8
      [] c.op = "SetFilter" -> (r \div 4) % 8
      [] OTHER -> r % 2

(* The same accepted field-setter call was made twice in a row, and the bus
   did not fail in either call *)
SameSetterTwice ==
    /\ Returned
    /\ prev.op \in FieldSetterOps
    /\ last.op = prev.op
    /\ last.arg = prev.arg
    /\ ArgInRange(last)
    /\ NoBusFailure(prev)
    /\ NoBusFailure(last)

(* C3 as stated: every field setter called twice in a row with the same valid
   value performs exactly one bus write in the first call and none in the
   second. *)
C3_Original ==
    SameSetterTwice => (NumWrites(prev) = 1 /\ NumWrites(last) = 0)

(* C3 amended: for the read-modify-write setters (all field setters but
   SetHOvs) the second call performs no bus write, and the first performs
   exactly one bus write when the field read differs from the value and none
   when it already holds it; SetHOvs performs two bus writes in each call. *)
C3_SetterTwice ==
    SameSetterTwice =>
        IF last.op = "SetHOvs"
        THEN NumWrites(prev) = 2 /\ NumWrites(last) = 2
        ELSE /\ NumWrites(last) = 0
             /\ NumWrites(prev) =
                    (IF TargetField(prev, prev.trace[1].data[1]) = prev.arg
                     THEN 0 ELSE 1)

C3_Witness ==
    /\ SameSetterTwice
    /\ last.op = "SetPOvs"
    /\ NumWrites(prev) = 1
    /\ NumWrites(last) = 0

C3_WitnessHOvs ==
    /\ SameSetterTwice
    /\ last.op = "SetHOvs"
    /\ NumWrites(last) = 2

----------------------------------------------------------------------------
(* An accepted SetMode call with an enumerated mode whose bus operations
   all succeeded *)
SetModeRan ==
    /\ Returned
    /\ last.op = "SetMode"
    /\ last.arg \in {0, 1, 3}
    /\ last.pre.initialized = 1
    /\ NoBusFailure(last)

(* What SetMode does once it has decided whether the register already holds
   the target: r is the byte read, same the decision *)
SetModeEffect(r, same) ==
    IF same
    THEN /\ Len(last.trace) = 1
         /\ last.ret = 0
    ELSE /\ Len(last.trace) = 2
         /\ last.trace[2].k = "w"
         /\ last.trace[2].addr = BME280_CTRL_MEAS_ADDR
         /\ last.trace[2].val \div 4 = r \div 4
         /\ last.trace[2].val % 4 = last.arg
         /\ last.ret = 0
         /\ mode = last.arg

SetModeReadsOnce ==
    /\ Len(last.trace) >= 1
    /\ last.trace[1].k = "r"
    /\ last.trace[1].addr = BME280_CTRL_MEAS_ADDR
    /\ last.trace[1].len = 1
    /\ NumReads(last) = 1

(* C4 as stated: SetMode on an initialized device, from every local mode,
   reads ctrl_meas once; if the mode field of the byte read equals the target
   it writes nothing and succeeds, otherwise it writes ctrl_meas once with
   only bits [1:0] changed and sets the local mode to the target. *)
C4_Original ==
    SetModeRan =>
        /\ SetModeReadsOnce
        /\ SetModeEffect(last.trace[1].data[1],
                         last.trace[1].data[1] % 4 = last.arg)

(* C4 amended: as stated, except that the comparison is made on the mode the
   field denotes, the field value 2 counting as forced mode (1): SetMode(forced)
   on a register whose field is 2 writes nothing and leaves the local mode. *)
C4_SetMode ==
    SetModeRan =>
        /\ SetModeReadsOnce
        /\ SetModeEffect(last.trace[1].data[1],
                         (IF last.trace[1].data[1] % 4 = 2 THEN 1
                          ELSE last.trace[1].data[1] % 4) = last.arg)

C4_Witness ==
    /\ SetModeRan
    /\ last.arg = 1
    /\ last.trace[1].data[1] % 4 = 2
    /\ Len(last.trace) = 1

C4_WitnessWrite ==
    /\ SetModeRan
    /\ last.pre.mode = 3
    /\ last.arg = 0
    /\ Len(last.trace) = 2
    /\ mode = 0

(* C5: Reset issues the single write of the reset value to the reset register
   whatever `initialized' and the local mode are; when it returns the local
   mode is sleep, also when the write failed; it returns the result of the
   bus write and changes neither `initialized' nor the calibration data. *)
C5_Reset ==
    (Returned /\ last.op = "Reset") =>
        /\ Len(last.trace) = 1
        /\ last.trace[1].k = "w"
        /\ last.trace[1].addr = BME280_RESET_ADDR
        /\ last.trace[1].val = BME280_RESET_VALUE
        /\ last.ret = last.trace[1].res
        /\ mode = 0
        /\ initialized = last.pre.initialized
        /\ trimm = last.pre.trimm

C5_Witness ==
    /\ Returned
    /\ last.op = "Reset"
    /\ last.pre.initialized = 1
    /\ last.pre.mode = 3
    /\ last.ret # 0
    /\ mode = 0

C5_WitnessNoInit ==
    /\ Returned
    /\ last.op = "Reset"
    /\ last.pre.initialized = 0
    /\ last.ret = 0

(* C6: a successful Init has issued exactly the reset write, one delay, the
   1-byte read of the id register and the reads of calibration ranges 1 and
   2, in this order and all successful, and ends initialized in sleep mode;
   `initialized' goes from false to true only in such a call. *)
C6_InitSequence ==
    /\ (Returned /\ last.op = "Init" /\ last.ret = 0) =>
            /\ Len(last.trace) = 5
            /\ NoBusFailure(last)
            /\ last.trace[1].k = "w"
            /\ last.trace[1].addr = BME280_RESET_ADDR
            /\ last.trace[1].val = BME280_RESET_VALUE
            /\ last.trace[2].k = "d"
            /\ last.trace[3].k = "r"
            /\ last.trace[3].addr = BME280_ID_ADDR
            /\ last.trace[3].len = 1
            /\ last.trace[4].k = "r"
            /\ last.trace[4].addr = BME280_CALIB_DATA1_ADDR
            /\ last.trace[5].k = "r"
            /\ last.trace[5].addr = BME280_CALIB_DATA2_ADDR
            /\ initialized = 1
            /\ mode = 0
    /\ (Returned /\ last.pre.initialized = 0 /\ initialized # 0) =>
            (last.op = "Init" /\ last.ret = 0)

C6_Witness ==
    /\ Returned
    /\ last.op = "Init"
    /\ last.ret = 0
    /\ last.pre.initialized = 0
    /\ initialized = 1

(* C7 as stated: whenever Init returns an error, every field of the device
   structure has the value it had before the call. *)
C7_Original ==
    (Returned /\ last.op = "Init" /\ last.ret # 0) => DevUnchanged

(* C7 amended: whenever Init returns an error, `initialized' and the
   calibration data have the values they had before the call; when the
   parameter check failed no field has changed; when a bus operation failed
   the driver passed in is attached and the local mode is sleep. *)
C7_InitFailure ==
    (Returned /\ last.op = "Init" /\ last.ret # 0) =>
        /\ initialized = last.pre.initialized
        /\ trimm = last.pre.trimm
        /\ t_fine = last.pre.t_fine
        /\ IF last.trace = <<>>
           THEN DevUnchanged
           ELSE driver = last.drv /\ mode = 0

C7_Witness ==
    /\ Returned
    /\ last.op = "Init"
    /\ last.ret # 0
    /\ Len(last.trace) = 5
    /\ last.pre.initialized = 1
    /\ last.pre.mode = 3
    /\ last.pre.driver # last.drv
    /\ driver = last.drv
    /\ mode = 0

(* C8: when every bus operation of Init succeeds, Init returns success
   whatever byte the id register returned; Init never returns ID_ERR. *)
C8_IdBypassed ==
    (Returned /\ last.op = "Init") =>
        /\ last.ret # BME280_ID_ERR
        /\ (/\ ~last.drv.null
            /\ last.drv.write
            /\ last.drv.read
            /\ last.drv.delay
            /\ NoBusFailure(last)) => last.ret = 0

C8_Witness ==
    /\ Returned
    /\ last.op = "Init"
    /\ last.ret = 0
    /\ last.trace[3].data # <<96>>

(* C9: when one of the driver's write, read and delay functions is absent,
   Init returns PARAM_ERR, issues no bus operation and no delay, and leaves
   the device structure, the attached driver included, unchanged. *)
C9_InitParam ==
    (/\ Returned
     /\ last.op = "Init"
     /\ (~last.drv.write \/ ~last.drv.read \/ ~last.drv.delay))
    => /\ last.ret = -1
       /\ last.trace = <<>>
       /\ DevUnchanged

C9_Witness ==
    /\ Returned
    /\ last.op = "Init"
    /\ ~last.drv.null
    /\ last.drv.write
    /\ last.drv.read
    /\ ~last.drv.delay
    /\ last.ret = -1

(* C10: ConfigureAll on an initialized device in sleep mode issues no bus
   read; it writes ctrl_hum, ctrl_meas and config in this order, each write
   only after the one before succeeded, and all three when it succeeds. *)
ConfigureAllOrder ==
    <<BME280_CTRL_HUM_ADDR, BME280_CTRL_MEAS_ADDR, BME280_CONFIG_ADDR>>

C10_ConfigureAllWrites ==
    (/\ Returned
     /\ last.op = "ConfigureAll"
     /\ ~last.cfg.null
     /\ last.pre.initialized = 1
     /\ last.pre.mode = 0)
    => /\ Len(last.trace) \in 1..3
       /\ \A i \in DOMAIN last.trace :
            /\ last.trace[i].k = "w"
            /\ last.trace[i].addr = ConfigureAllOrder[i]
            /\ (i > 1 => last.trace[i - 1].res = 0)
       /\ (last.ret = 0 => (Len(last.trace) = 3 /\ NoBusFailure(last)))

C10_Witness ==
    /\ Returned
    /\ last.op = "ConfigureAll"
    /\ last.ret = 0
    /\ Len(last.trace) = 3

C10_WitnessFailure ==
    /\ Returned
    /\ last.op = "ConfigureAll"
    /\ last.ret # 0
    /\ Len(last.trace) = 2

----------------------------------------------------------------------------
(* C11 as stated: after every successful ConfigureAll, whatever byte the
   configuration holds as mode, the local mode is the mode denoted by the
   mode field (bits [1:0]) of the byte written to ctrl_meas, the field
   value 2 denoting forced mode as the value 1 does. *)
C11_Original ==
    (Returned /\ last.op = "ConfigureAll" /\ last.ret = 0) =>
        LET field == last.trace[2].val % 4
        IN  mode = IF field = 2 THEN forced_mode ELSE field

----------------------------------------------------------------------------
(* The configuration codec: BME280_ConfigureAll called on an initialized
   device in sleep mode whose sensor has just been reset, with every field
   of the configuration drawn from CodecBytes. *)
CallConfigureAllCodec ==
    /\ pc = "call"
    /\ regs = ResetRegs
    /\ \E Config \in CodecConfigs, fp \in 0..3 :
          Apply("ConfigureAll", 0, Config, NullDriver,
                BME280_ConfigureAll(Dev, regs, Config, fp))

InitCodec ==
    /\ initialized = is_initialized
    /\ mode = sleep_mode
    /\ driver = FullDriver(1)
    /\ trimm = ParseTrimm(CalibImageA)
    /\ t_fine = 0
    /\ regs = ResetRegs
    /\ pc = "call"
    /\ last = NoCall
    /\ prev = NoCall
    /\ fault = FALSE

NextCodec ==
    \/ CallConfigureAllCodec
    \/ Return

SpecCodec == InitCodec /\ [][NextCodec]_vars

(* C12: each byte ConfigureAll writes is the packing of the configuration's
   fields: ctrl_hum holds the low three bits of oversampling_h; ctrl_meas
   holds the low three bits of oversampling_t in bits [7:5], of
   oversampling_p in bits [4:2] and the low two bits of mode in bits [1:0];
   config holds the low three bits of t_stby in bits [7:5], of filter in
   bits [4:2], the low bit of spi3w_enable in bit 0, and 0 in bit 1.  A
   successful call has written all three. *)
C12_CodecPacking ==
    (Returned /\ last.op = "ConfigureAll" /\ ~last.cfg.null) =>
        LET cfg == last.cfg
            tr  == last.trace
        IN  /\ last.ret = BME280_OK => Len(tr) = 3
            /\ \A i \in 1..Len(tr) :
                  /\ tr[i].k = "w"
                  /\ tr[i].addr = <<242, 244, 245>>[i]
                  /\ i = 1 => tr[i].val = cfg.oversampling_h % 8
                  /\ i = 2 => tr[i].val = (cfg.oversampling_t % 8) * 32
                                          + (cfg.oversampling_p % 8) * 4
                                          + (cfg.mode % 4)
                  /\ i = 3 => /\ tr[i].val = (cfg.t_stby % 8) * 32
                                            + (cfg.filter % 8) * 4
                                            + (cfg.spi3w_enable % 2)
                              /\ (tr[i].val \div 2) % 2 = 0

C12_Witness ==
    /\ Returned
    /\ last.op = "ConfigureAll"
    /\ last.ret = BME280_OK
    /\ last.cfg.oversampling_t = 8
    /\ last.cfg.oversampling_p = 5
    /\ last.cfg.mode = 255
    /\ last.cfg.spi3w_enable = 8
    /\ last.trace[2].val = 23
    /\ last.trace[3].addr = BME280_CONFIG_ADDR

----------------------------------------------------------------------------
GetterOps ==
    {"GetMode", "GetPOvs", "GetTOvs", "GetHOvs", "GetTStby", "GetTFilter",
     "Is3WireSPIEnabled"}

(* C13: a getter called on an uninitialized device returns
   BME280_NO_INIT_ERR without touching the bus.  On an initialized device,
   in any local mode, it issues exactly one bus operation, a read of one
   byte, and returns BME280_OK when that read succeeds.  In both cases the
   device structure is left as it was, except that GetMode may change the
   local mode and nothing else. *)
C13_GetterFrame ==
    (Returned /\ last.op \in GetterOps) =>
        /\ last.pre.initialized = not_initialized =>
              /\ last.ret = BME280_NO_INIT_ERR
              /\ last.trace = <<>>
        /\ last.pre.initialized = is_initialized =>
              /\ Len(last.trace) = 1
              /\ last.trace[1].k = "r"
              /\ last.trace[1].len = 1
              /\ last.trace[1].res = 0 => last.ret = BME280_OK
        /\ IF last.op = "GetMode"
           THEN [Dev EXCEPT !.mode = last.pre.mode] = last.pre
           ELSE DevUnchanged

C13_Witness ==
    /\ Returned
    /\ last.op = "GetTStby"
    /\ last.pre.initialized = is_initialized
    /\ last.pre.mode = normal_mode
    /\ last.ret = BME280_OK
    /\ NumReads(last) = 1

C13_WitnessGetMode ==
    /\ Returned
    /\ last.op = "GetMode"
    /\ last.pre.mode = sleep_mode
    /\ mode = normal_mode
    /\ last.ret = BME280_OK

----------------------------------------------------------------------------
(* Vocabulary of the forced reads *)
ForcedOps ==
    {"ReadAllForce", "ReadTempForce", "ReadPressForce", "ReadHumForce",
     "ReadAllForce_F", "ReadTempForce_F", "ReadPressForce_F", "ReadHumForce_F"}

(* The call got as far as its first bus operation, the 3-byte read of
   ctrl_hum, status and ctrl_meas, and that read succeeded *)
ConfigReadOk(c) ==
    /\ Len(c.trace) >= 1
    /\ c.trace[1].k = "r"
    /\ c.trace[1].addr = 242
    /\ c.trace[1].len = 3
    /\ c.trace[1].res = 0

(* Bit 0 (measuring) or bit 3 (im_update) of a status byte is set *)
BusyStatus(b) == b % 2 = 1 \/ (b \div 8) % 2 = 1

(* What a forced read must have seen before it writes ctrl_meas *)
ForcedWriteGuard(c) ==
    /\ c.pre.initialized = is_initialized
    /\ c.pre.mode = sleep_mode
    /\ ConfigReadOk(c)
    /\ ~BusyStatus(c.trace[1].data[2])
    /\ c.trace[1].data[3] % 4 = 0

(* C14 as stated: the write happens only under the guard; a local mode
   other than sleep gives BME280_CONDITION_ERR with no bus access; a busy
   bit in the status byte read gives BME280_BUSY_ERR, and a register mode
   field other than sleep gives BME280_CONDITION_ERR, both with no write and
   no delay. *)
C14_Original ==
    (Returned /\ last.op \in ForcedOps) =>
        /\ NumWrites(last) > 0 => ForcedWriteGuard(last)
        /\ last.pre.mode # sleep_mode =>
              last.ret = BME280_CONDITION_ERR /\ last.trace = <<>>
        /\ (ConfigReadOk(last) /\ BusyStatus(last.trace[1].data[2])) =>
              /\ last.ret = BME280_BUSY_ERR
              /\ NumWrites(last) = 0
              /\ NumDelays(last) = 0
        /\ (ConfigReadOk(last) /\ last.trace[1].data[3] % 4 # 0) =>
              /\ last.ret = BME280_CONDITION_ERR
              /\ NumWrites(last) = 0
              /\ NumDelays(last) = 0

(* C14: the write of ctrl_meas happens only under the guard.  On an
   initialized device whose local mode is not sleep the call returns
   BME280_CONDITION_ERR with no bus access.  After a successful 3-byte read,
   a busy bit in the status byte gives BME280_BUSY_ERR, whatever the mode
   field read; with both busy bits clear, a mode field other than sleep
   gives BME280_CONDITION_ERR.  Neither case writes or delays. *)
C14_ForcedGuard ==
    (Returned /\ last.op \in ForcedOps) =>
        /\ NumWrites(last) > 0 => ForcedWriteGuard(last)
        /\ (last.pre.initialized = is_initialized /\ last.pre.mode # sleep_mode) =>
              last.ret = BME280_CONDITION_ERR /\ last.trace = <<>>
        /\ (ConfigReadOk(last) /\ BusyStatus(last.trace[1].data[2])) =>
              /\ last.ret = BME280_BUSY_ERR
              /\ NumWrites(last) = 0
              /\ NumDelays(last) = 0
        /\ (/\ ConfigReadOk(last)
            /\ ~BusyStatus(last.trace[1].data[2])
            /\ last.trace[1].data[3] % 4 # 0) =>
              /\ last.ret = BME280_CONDITION_ERR
              /\ NumWrites(last) = 0
              /\ NumDelays(last) = 0

(* The sensor is measuring in a mode other than sleep while the local mode
   says sleep: the call reports busy *)
C14_Witness ==
    /\ Returned
    /\ last.op = "ReadTempForce"
    /\ ConfigReadOk(last)
    /\ last.trace[1].data[2] = 8
    /\ last.trace[1].data[3] % 4 = 3
    /\ last.ret = BME280_BUSY_ERR

C14_WitnessWrite ==
    /\ Returned
    /\ last.op = "ReadHumForce_F"
    /\ NumWrites(last) = 1
    /\ last.trace[1].data[2] = 246

C14_WitnessCondition ==
    /\ Returned
    /\ last.op = "ReadAllForce"
    /\ ConfigReadOk(last)
    /\ last.trace[1].data[2] = 246
    /\ last.trace[1].data[3] % 4 = 2
    /\ last.ret = BME280_CONDITION_ERR

----------------------------------------------------------------------------
(* The multiplier each oversampling code stands for in the delay of a
   forced measurement, codes 0 to 7 *)
OversamplingOfCode == <<0, 1, 2, 4, 8, 16, 16, 16>>

(* The delay, in ms, of a forced measurement whose 3-byte read returned
   buff: floor of the linear model over 100, plus 1 *)
DelayOfRead(buff) ==
    ((125 + 230 * OversamplingOfCode[((buff[3] \div 32) % 8) + 1]
          + 230 * OversamplingOfCode[((buff[3] \div 4) % 8) + 1] + 58
          + 230 * OversamplingOfCode[(buff[1] % 8) + 1] + 58) \div 100) + 1

(* C15: a forced read that writes ctrl_meas has first read three bytes at
   ctrl_hum; when all its bus operations succeed the write is followed, in
   this order and with nothing in between, by one delay of the computed
   duration and one 1-byte read of status.  If a busy bit is set in that
   status byte the call ends there with BME280_BUSY_ERR; otherwise one read
   of the ADC registers follows and ends the call. *)
C15_ForcedOrdering ==
    (Returned /\ last.op \in ForcedOps /\ NumWrites(last) > 0 /\ NoBusFailure(last)) =>
        LET tr == last.trace
        IN  /\ Len(tr) \in {4, 5}
            /\ ConfigReadOk(last)
            /\ tr[2].k = "w" /\ tr[2].addr = 244
            /\ tr[3].k = "d" /\ tr[3].val = DelayOfRead(tr[1].data)
            /\ tr[4].k = "r" /\ tr[4].addr = 243 /\ tr[4].len = 1
            /\ IF BusyStatus(tr[4].data[1])
               THEN Len(tr) = 4 /\ last.ret = BME280_BUSY_ERR
               ELSE /\ Len(tr) = 5
                    /\ tr[5].k = "r"
                    /\ tr[5].addr \in {247, 250, 253}
                    /\ last.ret = BME280_OK

C15_Witness ==
    /\ Returned
    /\ last.op = "ReadPressForce"
    /\ NoBusFailure(last)
    /\ Len(last.trace) = 4
    /\ last.trace[4].data[1] = 1
    /\ last.ret = BME280_BUSY_ERR

C15_WitnessComplete ==
    /\ Returned
    /\ last.op = "ReadAllForce_F"
    /\ Len(last.trace) = 5
    /\ last.trace[3].val = 113
    /\ last.trace[4].data[1] = 246
    /\ last.ret = BME280_OK

----------------------------------------------------------------------------
(* Forced measurements over every oversampling configuration: the device
   is initialized and in sleep mode, and the sensor, asleep, holds any of
   the 512 triples of oversampling codes. *)
OversamplingRegs ==
    {[ResetRegs EXCEPT ![BME280_CTRL_HUM_ADDR] = h,
                       ![BME280_CTRL_MEAS_ADDR] = (t * 32) + (p * 4)] :
        t \in 0..7, p \in 0..7, h \in 0..7}

(* bme280_osrs_to_oversampling applied to each of the eight register
   codes; the call record holds the eight results, code 0 first *)
CallOsrsToOversampling ==
    /\ pc = "call"
    /\ Apply("osrs_to_oversampling", 0, NullConfig, NullDriver,
             OutV(BME280_OK, <<>>, Dev, regs,
                  [k \in 1..8 |-> bme280_osrs_to_oversampling(k - 1)]))

(* The delay bme280_set_forced_mode computes, for each of the 512 triples
   of register codes: the call record holds the 512 delays, the one of
   codes osrs_t, osrs_p, osrs_h at index 64 * osrs_t + 8 * osrs_p + osrs_h + 1 *)
CallForcedDelay ==
    /\ pc = "call"
    /\ Apply("forced_delay", 0, NullConfig, NullDriver,
             OutV(BME280_OK, <<>>, Dev, regs,
                  [k \in 1..512 |-> ForcedDelay((k - 1) \div 64, ((k - 1) \div 8) % 8,
                                                (k - 1) % 8)]))

InitForced ==
    /\ initialized = is_initialized
    /\ mode = sleep_mode
    /\ driver = FullDriver(1)
    /\ trimm = ParseTrimm(CalibImageA)
    /\ t_fine = 0
    /\ regs \in OversamplingRegs
    /\ pc = "call"
    /\ last = NoCall
    /\ prev = NoCall
    /\ fault = FALSE

NextForced ==
    \/ CallReadAllForce
    \/ CallReadTempForce
    \/ CallReadPressForce
    \/ CallReadHumForce
    \/ CallReadAllForce_F
    \/ CallReadTempForce_F
    \/ CallReadPressForce_F
    \/ CallReadHumForce_F
    \/ CallOsrsToOversampling
    \/ CallForcedDelay
    \/ SensorReturnsToSleep
    \/ Return

SpecForced == InitForced /\ [][NextForced]_vars

(* The linear model of the measurement time, in units of 10 us, for the
   codes returned by the 3-byte read buff *)
MeasureTimeOfRead(buff) ==
    125 + 230 * OversamplingOfCode[((buff[3] \div 32) % 8) + 1]
        + 230 * OversamplingOfCode[((buff[3] \div 4) % 8) + 1] + 58
        + 230 * OversamplingOfCode[(buff[1] % 8) + 1] + 58

(* C16 as stated: the duration passed to the delay capability in a forced
   read is the ceiling of the linear model over 100, plus 1. *)
C16_Original ==
    (Returned /\ last.op \in ForcedOps /\ NumDelays(last) > 0) =>
        last.trace[3].val = ((MeasureTimeOfRead(last.trace[1].data) + 99) \div 100) + 1

(* C16: the duration passed to the delay capability in a forced read is the
   integer quotient (floor) of the linear model by 100, plus 1. *)
C16_ForcedDelay ==
    (Returned /\ last.op \in ForcedOps /\ NumDelays(last) > 0) =>
        /\ NumDelays(last) = 1
        /\ last.trace[3].k = "d"
        /\ last.trace[3].val = (MeasureTimeOfRead(last.trace[1].data) \div 100) + 1

C16_Witness ==
    /\ Returned
    /\ last.op = "ReadTempForce_F"
    /\ NumDelays(last) = 1
    /\ last.trace[1].data[1] = 1
    /\ last.trace[1].data[3] = 36
    /\ last.trace[3].val = 10

C16_WitnessMixed ==
    /\ Returned
    /\ last.op = "ReadAllForce"
    /\ NumDelays(last) = 1
    /\ last.trace[1].data[1] = 0
    /\ last.trace[1].data[3] = 236
    /\ last.trace[3].val = 49

(* C17 as stated: every register code maps to a multiplier in
   {1, 2, 4, 8, 16}, the mapping is non-decreasing and every code above the
   x2 code maps to at least 4. *)
C17_Original ==
    (Returned /\ last.op = "osrs_to_oversampling") =>
        /\ \A k \in 1..8 : last.out[k] \in {1, 2, 4, 8, 16}
        /\ \A j, k \in 1..8 : j <= k => last.out[j] <= last.out[k]
        /\ \A k \in 4..8 : last.out[k] >= 4

(* C17: every register code maps to a multiplier in {0, 1, 2, 4, 8, 16},
   0 being the image of code 0 alone; the mapping is non-decreasing and
   every code above the x2 code maps to at least 4. *)
C17_OversamplingMap ==
    (Returned /\ last.op = "osrs_to_oversampling") =>
        /\ Len(last.out) = 8
        /\ \A k \in 1..8 : last.out[k] \in {0, 1, 2, 4, 8, 16}
        /\ \A k \in 1..8 : last.out[k] = 0 <=> k = 1
        /\ \A j, k \in 1..8 : j <= k => last.out[j] <= last.out[k]
        /\ \A k \in 4..8 : last.out[k] >= 4

C17_Witness ==
    /\ Returned
    /\ last.op = "osrs_to_oversampling"
    /\ last.out[1] = 0
    /\ last.out[3] = 2
    /\ last.out[4] = 4
    /\ last.out[8] = 16

----------------------------------------------------------------------------
NormalReadOps ==
    {"ReadAllLast", "ReadTempLast", "ReadPressLast", "ReadHumLast",
     "ReadAllLast_F", "ReadTempLast_F", "ReadPressLast_F", "ReadHumLast_F"}

(* C18: a read in normal mode on an uninitialized device returns
   BME280_NO_INIT_ERR, and on an initialized device whose local mode is
   sleep or forced BME280_CONDITION_ERR; both without bus operation,
   without output and with t_fine unchanged.  On an initialized device in
   normal mode it issues exactly one bus operation, a read. *)
C18_NormalRead ==
    (Returned /\ last.op \in NormalReadOps) =>
        /\ last.pre.initialized = not_initialized =>
              last.ret = BME280_NO_INIT_ERR
        /\ (last.pre.initialized = is_initialized /\ last.pre.mode # normal_mode) =>
              last.ret = BME280_CONDITION_ERR
        /\ (last.pre.initialized = not_initialized \/ last.pre.mode # normal_mode) =>
              /\ last.trace = <<>>
              /\ last.out = <<>>
              /\ t_fine = last.pre.t_fine
        /\ (last.pre.initialized = is_initialized /\ last.pre.mode = normal_mode) =>
              /\ Len(last.trace) = 1
              /\ NumReads(last) = 1
              /\ NumWrites(last) = 0
              /\ last.ret \in {BME280_OK, BME280_INTERFACE_ERR}

C18_Witness ==
    /\ Returned
    /\ last.op = "ReadAllLast"
    /\ last.pre.initialized = is_initialized
    /\ last.pre.mode = forced_mode
    /\ last.ret = BME280_CONDITION_ERR

C18_WitnessAccepted ==
    /\ Returned
    /\ last.op = "ReadHumLast_F"
    /\ last.pre.mode = normal_mode
    /\ last.ret = BME280_OK
    /\ last.pre.t_fine = 0
    /\ t_fine = 128423
    /\ last.out = <<42, 897, 1000>>

----------------------------------------------------------------------------
(* Every enumerated field of a configuration is one of its codes *)
ConfigInRange(cfg) ==
    /\ cfg.oversampling_t <= 5
    /\ cfg.oversampling_p <= 5
    /\ cfg.oversampling_h <= 5
    /\ cfg.t_stby <= 7
    /\ cfg.filter <= 4
    /\ cfg.mode \in {0, 1, 3}

(* The call was given an enumerated value that is none of its codes,
   directly or in its configuration *)
EnumOutOfRange(c) ==
    \/ c.op \in {"SetPOvs", "SetTOvs", "SetHOvs", "SetTStby", "SetFilter", "SetMode"}
          /\ ~ArgInRange(c)
    \/ c.op = "ConfigureAll" /\ ~c.cfg.null /\ ~ConfigInRange(c.cfg)

(* C19 as stated: a call given an out-of-range enumerated value returns
   BME280_PARAM_ERR, issues no bus operation and leaves the device structure
   unchanged, whatever the initialization state and the local mode. *)
C19_Original ==
    (Returned /\ EnumOutOfRange(last)) =>
        /\ last.ret = BME280_PARAM_ERR
        /\ last.trace = <<>>
        /\ DevUnchanged

----------------------------------------------------------------------------
(* The public functions other than BME280_Init *)
PublicOps ==
    GetterOps \cup FieldSetterOps \cup NormalReadOps \cup ForcedOps \cup
    {"SetMode", "ConfigureAll", "Reset"}

(* The arguments of the call are valid: an enumerated value is one of its
   codes and the configuration is present with every field in range *)
ValidArgs(c) ==
    /\ ArgInRange(c)
    /\ c.op = "ConfigureAll" => ConfigInRange(c.cfg)

(* C20 as stated: every public function other than Init, called with valid
   arguments on a device that no Init has initialized, returns
   BME280_NO_INIT_ERR and issues no bus operation. *)
C20_Original ==
    (Returned /\ last.op \in PublicOps /\ ValidArgs(last)
              /\ last.pre.initialized = not_initialized) =>
        /\ last.ret = BME280_NO_INIT_ERR
        /\ last.trace = <<>>

(* C20: every public function other than Init and Reset, called with valid
   arguments on a device that no Init has initialized, returns
   BME280_NO_INIT_ERR and issues no bus operation.  Reset does not look at
   the initialization: on such a device with a driver attached it issues
   the reset write and returns the result of that write, and with no driver
   attached it reads through the null driver pointer, the only call that
   does not return. *)
C20_NotInitialized ==
    /\ (Returned /\ last.op \in PublicOps /\ ValidArgs(last)
                /\ last.pre.initialized = not_initialized) =>
          IF last.op = "Reset"
          THEN /\ ~last.pre.driver.null
               /\ Len(last.trace) = 1
               /\ last.trace[1].k = "w"
               /\ last.trace[1].addr = 224
               /\ last.ret = last.trace[1].res
          ELSE /\ last.ret = BME280_NO_INIT_ERR
               /\ last.trace = <<>>
    /\ fault => (driver.null /\ initialized = not_initialized)

C20_Witness ==
    /\ Returned
    /\ last.op = "ReadTempForce_F"
    /\ last.pre.initialized = not_initialized
    /\ ~last.pre.driver.null
    /\ last.ret = BME280_NO_INIT_ERR

C20_WitnessReset ==
    /\ Returned
    /\ last.op = "Reset"
    /\ last.pre.initialized = not_initialized
    /\ last.ret = BME280_OK
    /\ NumWrites(last) = 1

----------------------------------------------------------------------------
(* Every public function, BME280_Init included *)
AllOps == PublicOps \cup {"Init"}

(* C21 as stated: whenever a bus read or write of Init, ConfigureAll, a
   setter, a getter or a read reports failure, the call returns
   BME280_INTERFACE_ERR. *)
C21_Original ==
    (Returned /\ last.op \in AllOps \ {"Reset"} /\ ~NoBusFailure(last)) =>
        last.ret = BME280_INTERFACE_ERR

----------------------------------------------------------------------------
(* The index of the first event of a call that reports a bus failure, 0 if
   there is none *)
FirstFailure(c) ==
    IF NoBusFailure(c) THEN 0
    ELSE CHOOSE i \in DOMAIN c.trace :
             /\ c.trace[i].res # 0
             /\ \A j \in 1..(i - 1) : c.trace[j].res = 0

(* The last event of the call is a read that delivered a status byte with a
   busy bit set: the 3-byte read of ctrl_hum, status, ctrl_meas or the
   1-byte read of status *)
EndsWithBusyStatus(c) ==
    /\ c.trace # <<>>
    /\ LET e == c.trace[Len(c.trace)]
       IN  /\ e.k = "r"
           /\ e.res = 0
           /\ \/ e.addr = 242 /\ e.len = 3 /\ BusyStatus(e.data[2])
              \/ e.addr = 243 /\ e.len = 1 /\ BusyStatus(e.data[1])

(* C22: no internal retries.  An event that reports a bus failure is the
   last event of its call: no bus operation and no delay follows it, and no
   address is accessed again.  A call rejected by the parameter check or the
   not-initialized check issues no event; one rejected with
   BME280_CONDITION_ERR issues none, or only the 3-byte read that delivered
   a mode field other than sleep; one rejected with BME280_BUSY_ERR ends
   with the read that delivered the busy status. *)
C22_NoRetries ==
    (Returned /\ last.op \in AllOps) =>
        /\ FirstFailure(last) \in {0, Len(last.trace)}
        /\ ~ValidArgs(last) /\ last.ret = -1 /\ NoBusFailure(last)
              => last.trace = <<>>
        /\ last.ret = -4 => last.trace = <<>>
        /\ last.ret = -5 =>
              \/ last.trace = <<>>
              \/ /\ Len(last.trace) = 1
                 /\ ConfigReadOk(last)
                 /\ last.trace[1].data[3] % 4 # 0
        /\ last.ret = -6 => EndsWithBusyStatus(last)

C22_Witness ==
    /\ Returned
    /\ last.op = "ReadAllForce"
    /\ Len(last.trace) = 4
    /\ last.trace[4].res # 0
    /\ last.ret = -2

C22_WitnessBusy ==
    /\ Returned
    /\ last.op = "ReadHumForce"
    /\ last.ret = -6
    /\ Len(last.trace) = 4
    /\ last.trace[3].k = "d"

C22_WitnessSetter ==
    /\ Returned
    /\ last.op = "SetHOvs"
    /\ Len(last.trace) = 2
    /\ last.trace[2].res # 0

----------------------------------------------------------------------------
(* Vocabulary of the reads *)
ReadOps == NormalReadOps \cup ForcedOps

ReadTypeOf(op) ==
    CASE op \in {"ReadAllLast", "ReadAllLast_F", "ReadAllForce", "ReadAllForce_F"} -> 0
      [] op \in {"ReadTempLast", "ReadTempLast_F", "ReadTempForce", "ReadTempForce_F"} -> 1
      [] op \in {"ReadPressLast", "ReadPressLast_F", "ReadPressForce", "ReadPressForce_F"} -> 2
      [] OTHER -> 3

IsFloatOp(op) ==
    op \in {"ReadAllLast_F", "ReadTempLast_F", "ReadPressLast_F", "ReadHumLast_F",
            "ReadAllForce_F", "ReadTempForce_F", "ReadPressForce_F", "ReadHumForce_F"}

(* The call is a read that returned success *)
ReadDone(c) == c.op \in ReadOps /\ c.ret = 0

(* The bus read of the ADC registers, the last event of a read that
   returned success *)
AdcEvent(c) == c.trace[Len(c.trace)]

(* The raw words within the bytes of that bus read: the read starts at the
   pressure word (0xF7) for read types all and press, at the temperature
   word (0xFA) for temp and hum *)
TempWord(c) ==
    IF AdcEvent(c).addr = 247 THEN SubSeq(AdcEvent(c).data, 4, 6)
    ELSE SubSeq(AdcEvent(c).data, 1, 3)

PressWord(c) == SubSeq(AdcEvent(c).data, 1, 3)

HumWord(c) ==
    IF AdcEvent(c).addr = 247 THEN SubSeq(AdcEvent(c).data, 7, 8)
    ELSE SubSeq(AdcEvent(c).data, 4, 5)

(* Temperature compensation of the temperature word of the call's bus
   read, with the calibration data the device held *)
TempPass(c) ==
    bme280_compensate_t_s32t(c.pre, bme280_parse_press_temp_s32t(TempWord(c)))

(* What the read stores when pressure and humidity are compensated with
   fine temperature fine *)
OutputWithFine(c, fine) ==
    LET rt == ReadTypeOf(c.op)
        d1 == [trimm |-> c.pre.trimm, t_fine |-> fine]
    IN  ReadOutput(rt, IsFloatOp(c.op),
            [temp  |-> TempPass(c).temperature,
             press |-> IF rt \in {0, 2}
                       THEN bme280_compensate_p_u32t(d1,
                                bme280_parse_press_temp_s32t(PressWord(c)))
                       ELSE <<>>,
             hum   |-> IF rt \in {0, 3}
                       THEN bme280_compensate_h_u32t(d1,
                                bme280_parse_hum_s32t(HumWord(c))).humidity
                       ELSE 0])

(* C23: a read that returns success has issued one successful bus read of
   the ADC registers that covers the temperature word; the fine temperature
   stored is the one temperature compensation computes from that word, and
   the pressure and humidity it returns are compensated with that fine
   temperature.  No other call, and no read that fails, changes the fine
   temperature or returns a measurement. *)
C23_TemperatureFirst ==
    /\ (Returned /\ ReadDone(last)) =>
          /\ AdcEvent(last).k = "r"
          /\ AdcEvent(last).res = 0
          /\ AdcEvent(last).addr \in {247, 250}
          /\ AdcEvent(last).addr + AdcEvent(last).len >= 253
          /\ t_fine = TempPass(last).t_fine
          /\ last.out = OutputWithFine(last, t_fine)
    /\ (Returned /\ last.op \in AllOps /\ ~ReadDone(last)) =>
          /\ t_fine = last.pre.t_fine
          /\ last.op \in ReadOps => last.out = <<>>

C23_Witness ==
    /\ Returned
    /\ last.op = "ReadPressForce"
    /\ last.ret = 0
    /\ last.pre.t_fine = 0
    /\ t_fine = 128423
    /\ last.out = <<1006, 532>>

C23_WitnessHum ==
    /\ Returned
    /\ last.op = "ReadHumLast_F"
    /\ last.ret = 0
    /\ last.pre.t_fine # t_fine
    /\ AdcEvent(last).addr = 250
    /\ AdcEvent(last).len = 5

----------------------------------------------------------------------------
(* Two reads in a row on a device that holds calibration data and some fine
   temperature from earlier reads: the caller keeps the record of the
   previous call, and the sensor may offer the same sample again or another
   one. *)
PriorFines == {0, -100000, 128423, 400000}

ReadOpName(forced, read_type, float) ==
    (CASE read_type = read_all -> "ReadAll"
       [] read_type = read_temp -> "ReadTemp"
       [] read_type = read_press -> "ReadPress"
       [] OTHER -> "ReadHum")
    \o (IF forced THEN "Force" ELSE "Last")
    \o (IF float THEN "_F" ELSE "")

ReadTypes == {read_all, read_temp, read_press, read_hum}

CallReadLastPair ==
    /\ pc = "call"
    /\ \E read_type \in ReadTypes, float \in BOOLEAN, r \in {BusOk, BusFail},
          adc \in PairSamples :
           Apply(ReadOpName(FALSE, read_type, float), 0, NullConfig, NullDriver,
                 ReadLast(Dev, regs, read_type, float, r, adc))

CallReadForcePair ==
    /\ pc = "call"
    /\ \E read_type \in ReadTypes, float \in BOOLEAN, fp \in {0, 4},
          adc \in PairSamples :
           Apply(ReadOpName(TRUE, read_type, float), 0, NullConfig, NullDriver,
                 ReadForce(Dev, regs, read_type, float, fp, 0, 0, adc))

InitPair ==
    /\ initialized = is_initialized
    /\ mode \in {sleep_mode, normal_mode}
    /\ driver = FullDriver(1)
    /\ trimm \in {ParsedTrimm[img] : img \in CalibImages}
    /\ t_fine \in PriorFines
    /\ regs = ResetRegs
    /\ pc = "call"
    /\ last = NoCall
    /\ prev = NoCall
    /\ fault = FALSE

NextPair ==
    \/ CallReadLastPair
    \/ CallReadForcePair
    \/ SensorReturnsToSleep
    \/ ReturnKeep

SpecPair == InitPair /\ [][NextPair]_vars

(* C24: two reads by the same operation that return success, on calibration
   data that are equal and with the same bytes delivered by the bus read of
   the ADC registers, store the same outputs and leave the same fine
   temperature, whatever fine temperature the device held before each of
   them. *)
C24_ReadDeterminism ==
    (/\ Returned
     /\ ReadDone(prev)
     /\ ReadDone(last)
     /\ last.op = prev.op
     /\ last.pre.trimm = prev.pre.trimm
     /\ AdcEvent(last).data = AdcEvent(prev).data)
    => /\ last.out = prev.out
       /\ t_fine = last.pre.t_fine

C24_Witness ==
    /\ Returned
    /\ ReadDone(prev)
    /\ ReadDone(last)
    /\ last.op = "ReadAllLast"
    /\ prev.op = "ReadAllLast"
    /\ AdcEvent(last).data = AdcEvent(prev).data
    /\ prev.pre.t_fine = 400000
    /\ last.pre.t_fine = 128423
    /\ last.out = <<25, 8, 1006, 532, 42, 897>>

C24_WitnessForce ==
    /\ Returned
    /\ ReadDone(prev)
    /\ ReadDone(last)
    /\ last.op = "ReadHumForce_F"
    /\ prev.op = "ReadHumForce_F"
    /\ AdcEvent(last).data = AdcEvent(prev).data
    /\ prev.pre.t_fine = -100000
    /\ last.pre.t_fine # prev.pre.t_fine

(* ------------------------------------------------------------------ *)
(* The compensation functions on their own: bounded calibration stores,
   fine temperatures and raw words                                      *)

(* Stores whose humidity coefficients sit at the ends of what
   bme280_read_compensation_parameters can produce (dig_H4 and dig_H5 are
   12-bit values) *)
HumStores ==
    {[ParsedTrimm[CalibImageA] EXCEPT !.dig_H1 = h1, !.dig_H2 = h2, !.dig_H3 = h3,
                                      !.dig_H4 = h4, !.dig_H5 = h5, !.dig_H6 = h6] :
        h1 \in {0, 255}, h2 \in {-32768, 32767}, h3 \in {0, 255},
        h4 \in {0, 4095}, h5 \in {0, 4095}, h6 \in {-128, 127}}

(* Stores for the pressure divisor: dig_P1 = 0, and a store with dig_P1 # 0
   whose divisor still truncates to zero near t_fine = 128000 + 2^20 *)
ZeroP1Store == [ParsedTrimm[CalibImageA] EXCEPT !.dig_P1 = 0]

ZeroDivisorStore ==
    [ParsedTrimm[CalibImageA] EXCEPT !.dig_P1 = 1, !.dig_P2 = -32768, !.dig_P3 = 0,
                                     !.dig_P9 = 0]

CompStores ==
    {ParsedTrimm[img] : img \in CalibImages} \cup HumStores
        \cup {ZeroP1Store, ZeroDivisorStore}

CompFines == {MinS32, -100000, 0, 76800, 128423, 1176575, 1176576, MaxS32}

HumWords == {0, 28672, 65535}

PressWords == {0, 415148, 1048575}

(* bme280_compensate_h_u32t(adc_H, Dev).  A signed 32-bit overflow inside it
   is undefined: the build either wraps, and the function returns the
   wrapped result, or traps, and control never returns. *)
CallCompensateH ==
    /\ pc = "call"
    /\ \E adc_H \in HumWords :
         LET h == bme280_compensate_h_u32t(Dev, adc_H) IN
           \/ Apply("compensate_h", adc_H, NullConfig, NullDriver,
                    OutV(BME280_OK, <<>>, Dev, regs, <<h.humidity>>))
           \/ /\ h.overflow
              /\ ~fault
              /\ fault' = TRUE
              /\ UNCHANGED <<initialized, mode, driver, trimm, t_fine, regs, pc,
                             last, prev>>

(* bme280_compensate_p_u32t(adc_P, Dev) on the 64-bit path, for the fine
   temperatures that keep every product inside 64 bits; last.out is the
   returned BME280_U32_t as a magnitude *)
CallCompensateP ==
    /\ pc = "call"
    /\ t_fine \notin {MinS32, MaxS32}
    /\ \E adc_P \in PressWords :
         Apply("compensate_p", adc_P, NullConfig, NullDriver,
               OutV(BME280_OK, <<>>, Dev, regs, bme280_compensate_p_u32t(Dev, adc_P)))

(* bme280_convert_h_U32_struct(hum, &data) on the value the humidity
   compensation just returned, as the integer reads do *)
CallConvertH ==
    /\ pc = "ret"
    /\ ~fault
    /\ last.op = "compensate_h"
    /\ last' = Call("convert_h", last.out[1], NullConfig, NullDriver,
                    OutV(BME280_OK, <<>>, Dev, regs,
                         bme280_convert_h_U32_struct(last.out[1])), Dev)
    /\ UNCHANGED <<initialized, mode, driver, trimm, t_fine, regs, pc, prev, fault>>

InitComp ==
    /\ initialized = is_initialized
    /\ mode = sleep_mode
    /\ driver = FullDriver(1)
    /\ trimm \in CompStores
    /\ t_fine \in CompFines
    /\ regs = ResetRegs
    /\ pc = "call"
    /\ last = NoCall
    /\ prev = NoCall
    /\ fault = FALSE

NextComp ==
    \/ CallCompensateH
    \/ CallCompensateP
    \/ CallConvertH
    \/ Return

SpecComp == InitComp /\ [][NextComp]_vars

(* C25: for every calibration store, fine temperature and raw humidity word
   the value returned by the humidity compensation is at least 0 and at most
   419430400 / 1024 *)
C25_HumidityRange ==
    last.op = "compensate_h" =>
        /\ Len(last.out) = 1
        /\ last.out[1] >= 0
        /\ last.out[1] <= 419430400 \div 1024

(* the clamp acts: a store at the ends of the coefficient ranges, whose
   unclamped value would pass the ceiling *)
C25_Witness ==
    /\ last.op = "compensate_h"
    /\ last.pre.trimm \in HumStores
    /\ last.pre.trimm.dig_H2 = -32768
    /\ last.pre.t_fine = 0
    /\ last.arg = 28672
    /\ last.out = <<102400>>

(* the clamp acts without any overflow: image A with the largest raw word *)
C25_WitnessCeiling ==
    /\ last.op = "compensate_h"
    /\ last.pre.trimm = ParsedTrimm[CalibImageA]
    /\ last.pre.t_fine = 128423
    /\ last.arg = 65535
    /\ last.out = <<102400>>

(* the lower clamp acts *)
C25_WitnessFloor ==
    /\ last.op = "compensate_h"
    /\ last.pre.trimm = ParsedTrimm[CalibImageA]
    /\ last.arg = 0
    /\ last.out = <<0>>

(* The divisor term of the pressure compensation is zero: dig_P1 = 0, or, in
   the store with dig_P1 = 1, dig_P2 = -32768 and dig_P3 = 0, a fine
   temperature so close to 128000 + 2^20 that
   (2^47 - (t_fine - 128000) * 2^27) / 2^33 truncates to 0 *)
DivisorIsZero(c) ==
    \/ c.pre.trimm.dig_P1 = 0
    \/ /\ c.pre.trimm.dig_P1 = 1
       /\ c.pre.trimm.dig_P2 = -32768
       /\ c.pre.trimm.dig_P3 = 0
       /\ Abs(1176576 - c.pre.t_fine) < 64
    \/ PressureVar1(c.pre).mag = <<>>

(* C26: whenever the divisor term of the pressure compensation is zero, in
   particular whenever dig_P1 is 0, the pressure compensation returns exactly
   0 for every raw pressure word *)
C26_ZeroDivisor ==
    (last.op = "compensate_p" /\ DivisorIsZero(last)) => last.out = <<>>

(* dig_P1 = 0 with a non-zero raw word *)
C26_Witness ==
    /\ last.op = "compensate_p"
    /\ last.pre.trimm = ZeroP1Store
    /\ last.arg = 415148
    /\ last.out = <<>>

(* the divisor is zero although dig_P1 is not *)
C26_WitnessTruncated ==
    /\ last.op = "compensate_p"
    /\ last.pre.trimm = ZeroDivisorStore
    /\ last.pre.t_fine = 1176575
    /\ last.pre.trimm.dig_P1 # 0
    /\ last.out = <<>>

(* the same store at another fine temperature has a divisor and a result *)
C26_WitnessNonZero ==
    /\ last.op = "compensate_p"
    /\ last.pre.trimm = ZeroDivisorStore
    /\ last.pre.t_fine = 128423
    /\ last.out # <<>>

(* The Q24.8 pressure of a call, as an integer, when it is non-negative and below 2^30 *)
Q24_8(c) == BigToInt(PressureVar4(c.pre, c.arg, PressureVar1(c.pre)))

HasQ24_8(c) ==
    /\ c.op = "compensate_p"
    /\ ~DivisorIsZero(c)
    /\ ~PressureVar4(c.pre, c.arg, PressureVar1(c.pre)).neg
    /\ Len(PressureVar4(c.pre, c.arg, PressureVar1(c.pre)).mag) <= 2

(* C27 as stated: on the 64-bit path the value returned by the pressure
   compensation is the pressure in Pa scaled by 256 (Q24.8) *)
C27_Original ==
    HasQ24_8(last) => MagToNat(last.out) = Q24_8(last)

(* C27 amended: on the 64-bit path the value returned is the pressure in Pa
   scaled by 100, obtained from the Q24.8 value q as ((q / 2) * 100) / 128 *)
C27_PaTimes100 ==
    HasQ24_8(last) =>
        LET half == Q24_8(last) \div 2
        IN  /\ Len(last.out) <= 3
            /\ MagToNat(last.out)
                  = (half \div 128) * 100 + ((half % 128) * 100) \div 128

(* image A, sample A: Q24.8 value 25767240 (100653.28 Pa) is returned as
   10065328 *)
C27_Witness ==
    /\ HasQ24_8(last)
    /\ last.pre.trimm = ParsedTrimm[CalibImageA]
    /\ last.pre.t_fine = 128423
    /\ last.arg = 415148
    /\ Q24_8(last) = 25767240
    /\ last.out = MagOfNat(10065328)

(* ------------------------------------------------------------------ *)
(* C28: in every reachable state the local mode of an initialized device is
   one of sleep_mode (0), forced_mode (1), normal_mode (3) *)
C28_Original ==
    initialized = is_initialized => mode \in {sleep_mode, forced_mode, normal_mode}

(* ------------------------------------------------------------------ *)
(* SetHOvs passed its parameter, initialization and mode checks *)
HOvsAccepted(c) ==
    /\ c.op = "SetHOvs"
    /\ c.arg <= 5
    /\ c.pre.initialized = 1
    /\ c.pre.mode = 0

(* The three bus operations of the latch protocol, given the byte the read
   of measurement-control delivered *)
LatchProtocol(v, byte) ==
    << [k |-> "w", addr |-> 242, val |-> v, len |-> 1],
       [k |-> "r", addr |-> 244, val |-> 0, len |-> 1],
       [k |-> "w", addr |-> 244, val |-> byte, len |-> 1] >>

BusOpOf(e) == [k |-> e.k, addr |-> e.addr, val |-> e.val, len |-> e.len]

(* C29: an accepted SetHOvs(v) issues, in this order, one write of v to
   humidity-control (0xF2), one read of measurement-control (0xF4) and one
   write of measurement-control with exactly the byte just read, whatever
   humidity-control held before; no read of humidity-control comes first.
   A bus failure ends the sequence at the failing operation. *)
C29_HOvsLatch ==
    (Returned /\ HOvsAccepted(last)) =>
        LET n == Len(last.trace)
            byte == IF n >= 2 /\ last.trace[2].res = 0
                    THEN last.trace[2].data[1] ELSE 0
        IN  /\ n \in 1..3
            /\ \A i \in 1..n : BusOpOf(last.trace[i]) = LatchProtocol(last.arg, byte)[i]
            /\ \A i \in 1..(n - 1) : last.trace[i].res = 0
            /\ n < 3 => last.trace[n].res # 0
            /\ n >= 2 /\ last.trace[2].res = 0 => Len(last.trace[2].data) = 1

(* the whole protocol, with a measurement-control byte that is not zero *)
C29_Witness ==
    /\ Returned
    /\ HOvsAccepted(last)
    /\ last.arg = 5
    /\ Len(last.trace) = 3
    /\ NoBusFailure(last)
    /\ last.trace[2].data # <<0>>
    /\ last.trace[3].val = last.trace[2].data[1]
    /\ regs[242] = 5

(* ------------------------------------------------------------------ *)
(* The call is an Init whose two calibration-range reads (0x88, 25 bytes and
   0xE1, 7 bytes) both succeeded *)
BothCalibReadsOk(c) ==
    /\ c.op = "Init"
    /\ Len(c.trace) = 5
    /\ c.trace[4].k = "r" /\ c.trace[4].addr = 136 /\ c.trace[4].res = 0
    /\ c.trace[5].k = "r" /\ c.trace[5].addr = 225 /\ c.trace[5].res = 0

(* C30: the calibration coefficients change only inside an Init call whose
   two calibration-range reads both succeed (not in a failed Init, not in
   part, not in any other operation), and no compensation runs on a device
   for which no Init has succeeded: such a read touches neither the bus nor
   t_fine and delivers nothing *)
C30_CalibrationIntegrity ==
    /\ pc = "call" => last = NoCall
    /\ (Returned /\ trimm # last.pre.trimm) =>
          /\ BothCalibReadsOk(last)
          /\ last.ret = 0
          /\ trimm.dig_T1 = last.trace[4].data[1] + 256 * last.trace[4].data[2]
          /\ trimm.dig_H1 = last.trace[4].data[25]
          /\ trimm.dig_H3 = last.trace[5].data[3]
    /\ (Returned /\ last.op \in ReadOps /\ last.pre.initialized # 1) =>
          /\ last.ret = -4
          /\ last.trace = <<>>
          /\ last.out = <<>>
          /\ t_fine = last.pre.t_fine
    /\ (Returned /\ ReadDone(last)) =>
          /\ last.pre.initialized = 1
          /\ last.pre.trimm # ZeroTrimm
    /\ initialized = 1 => trimm # ZeroTrimm

(* a second Init of an initialized device replaces the store by the other
   sensor image *)
C30_Witness ==
    /\ Returned
    /\ BothCalibReadsOk(last)
    /\ last.ret = 0
    /\ last.pre.trimm # ZeroTrimm
    /\ trimm # last.pre.trimm

(* an Init whose second calibration read fails leaves the store alone *)
C30_WitnessFailedInit ==
    /\ Returned
    /\ last.op = "Init"
    /\ Len(last.trace) = 5
    /\ last.trace[4].res = 0
    /\ last.trace[5].res # 0
    /\ last.ret = -2
    /\ trimm = last.pre.trimm

(* a read on a device no Init has succeeded on *)
C30_WitnessNoInit ==
    /\ Returned
    /\ last.op = "ReadAllLast"
    /\ last.pre.initialized # 1
    /\ last.pre.trimm = ZeroTrimm
    /\ last.ret = -4

----------------------------------------------------------------------------
(* The delay of a triple of codes in the table of a forced_delay call *)
DelayOf(c, t, p, h) == c.out[64 * t + 8 * p + h + 1]

(* The linear model over 100 plus 1, in unbounded arithmetic *)
DelayOfCodes(t, p, h) ==
    ((125 + 230 * OversamplingOfCode[t + 1] + 230 * OversamplingOfCode[p + 1] + 58
          + 230 * OversamplingOfCode[h + 1] + 58) \div 100) + 1

(* C31: over all triples of 3-bit oversampling codes the computed delay is
   non-decreasing in each code, is smallest among the triples of measuring
   codes (1..7) at x1/x1/x1 and largest at x16/x16/x16, and never exceeds
   255: the value stored in the 8-bit delay is the untruncated one *)
C31_DelayRange ==
    (Returned /\ last.op = "forced_delay") =>
        /\ Len(last.out) = 512
        /\ \A t \in 0..7, p \in 0..7, h \in 0..7 :
              /\ DelayOf(last, t, p, h) <= 255
              /\ DelayOf(last, t, p, h) = DelayOfCodes(t, p, h)
              /\ DelayOf(last, t, p, h) <= DelayOf(last, 5, 5, 5)
              /\ t < 7 => DelayOf(last, t, p, h) <= DelayOf(last, t + 1, p, h)
              /\ p < 7 => DelayOf(last, t, p, h) <= DelayOf(last, t, p + 1, h)
              /\ h < 7 => DelayOf(last, t, p, h) <= DelayOf(last, t, p, h + 1)
        /\ \A t \in 1..7, p \in 1..7, h \in 1..7 :
              DelayOf(last, 1, 1, 1) <= DelayOf(last, t, p, h)

(* the two ends: 10 ms at x1/x1/x1, 113 ms at x16/x16/x16 *)
C31_Witness ==
    /\ Returned
    /\ last.op = "forced_delay"
    /\ DelayOf(last, 1, 1, 1) = 10
    /\ DelayOf(last, 5, 5, 5) = 113
    /\ DelayOf(last, 7, 7, 7) = 113
    /\ DelayOf(last, 0, 0, 0) = 3

----------------------------------------------------------------------------
(* C32: after every SetMode(target) that returns success, on the write path
   and on the short-circuit path and from every prior local mode, the local
   mode equals target *)
C32_Original ==
    (Returned /\ last.op = "SetMode" /\ last.arg \in {0, 1, 3}
              /\ last.pre.initialized = 1 /\ last.ret = 0) =>
        mode = last.arg

----------------------------------------------------------------------------
(* The six read-modify-write setters, the register each works on, and the
   place of its field in the byte: the weight of the field's lowest bit and
   the number of values the field has *)
FrameSetters ==
    {"SetPOvs", "SetTOvs", "SetTStby", "SetFilter", "Enable3WireSPI", "Disable3WireSPI"}

SetterRegister(op) == IF op \in {"SetPOvs", "SetTOvs"} THEN 244 ELSE 245

FieldUnit(op) ==
    CASE op \in {"SetPOvs", "SetFilter"} -> 4
      [] op \in {"SetTOvs", "SetTStby"} -> 32
      [] OTHER -> 1

FieldSize(op) == IF op \in {"Enable3WireSPI", "Disable3WireSPI"} THEN 2 ELSE 8

SetterWrote(c) ==
    /\ c.op \in FrameSetters
    /\ Len(c.trace) = 2
    /\ c.trace[1].res = 0

(* C33: for SetPOvs, SetTOvs, SetTStby, SetFilter, Enable3WireSPI and
   Disable3WireSPI, every valid value v and every register byte r read, the
   byte written, when a write occurs, has the target field equal to v and
   every bit outside the field equal to that bit of r; the register written
   is the one read, and local mode and fine temperature are unchanged *)
C33_SetterFrame ==
    (Returned /\ last.op \in FrameSetters) =>
        /\ mode = last.pre.mode
        /\ t_fine = last.pre.t_fine
        /\ Len(last.trace) <= 2
        /\ \A i \in DOMAIN last.trace :
              /\ last.trace[i].addr = SetterRegister(last.op)
              /\ last.trace[i].k = IF i = 1 THEN "r" ELSE "w"
        /\ SetterWrote(last) =>
              LET r == last.trace[1].data[1]
                  w == last.trace[2].val
                  u == FieldUnit(last.op)
                  n == FieldSize(last.op)
              IN  /\ (w \div u) % n = last.arg
                  /\ w % u = r % u
                  /\ w \div (u * n) = r \div (u * n)
                  /\ (r \div u) % n # last.arg

(* SetFilter(0) on a config byte with standby, filter and 3-wire bits set *)
C33_Witness ==
    /\ Returned
    /\ SetterWrote(last)
    /\ last.op = "SetFilter"
    /\ last.arg = 0
    /\ last.trace[1].data[1] % 4 = 1
    /\ last.trace[1].data[1] \div 32 = 7
    /\ (last.trace[1].data[1] \div 4) % 8 = 4
    /\ last.trace[2].val = 225
    /\ last.ret = 0

(* SetTOvs on a measurement-control byte with pressure and mode bits set *)
C33_WitnessTOvs ==
    /\ Returned
    /\ SetterWrote(last)
    /\ last.op = "SetTOvs"
    /\ last.arg = 5
    /\ last.trace[1].data[1] \div 32 = 0
    /\ last.trace[1].data[1] % 32 # 0
    /\ last.trace[2].val = 160 + last.trace[1].data[1]

(* the 3-wire flag set on a byte with other bits set *)
C33_WitnessSpi ==
    /\ Returned
    /\ SetterWrote(last)
    /\ last.op = "Enable3WireSPI"
    /\ last.trace[1].data[1] > 1
    /\ last.trace[2].val = last.trace[1].data[1] + 1

----------------------------------------------------------------------------
(* The call passed the local checks of a forced read: the device was
   initialized and its local mode was sleep *)
ForcedReadEntered(c) ==
    /\ c.op \in ForcedOps
    /\ c.pre.initialized = is_initialized
    /\ c.pre.mode = sleep_mode

(* C34: a forced read never changes the local mode.  Whatever it returns,
   the local mode after the call is the one before it; a call that started
   with local mode sleep ends with local mode sleep, so the local check of a
   following forced read or field setter passes.  The mode register is never
   read again after the 3-byte read: the only reads that follow are the
   status poll and the read of the ADC registers.  The write of ctrl_meas, if
   issued, is the only write, and relative to the ctrl_meas byte read it
   changes only bits 1:0, which it sets to forced. *)
C34_ForcedReadFrame ==
    (Returned /\ last.op \in ForcedOps) =>
        /\ mode = last.pre.mode
        /\ initialized = last.pre.initialized
        /\ last.trace # <<>> => ForcedReadEntered(last)
        /\ ForcedReadEntered(last) =>
              /\ mode = sleep_mode
              /\ bme280_is_sleep_mode(Dev) = 0
              /\ last.ret \in {BME280_OK, BME280_INTERFACE_ERR, BME280_BUSY_ERR,
                               BME280_CONDITION_ERR}
        /\ \A i \in DOMAIN last.trace :
              (i > 1 /\ last.trace[i].k = "r") =>
                  /\ last.trace[i].addr \in {243, 247, 250, 253}
                  /\ last.trace[i].addr = 243 => (i = 4 /\ last.trace[i].len = 1)
                  /\ last.trace[i].addr # 243 => i = 5
        /\ NumWrites(last) <= 1
        /\ \A i \in DOMAIN last.trace :
              last.trace[i].k = "w" =>
                  /\ i = 2
                  /\ last.trace[i].addr = 244
                  /\ last.trace[i].val \div 4 = last.trace[1].data[3] \div 4
                  /\ last.trace[i].val % 4 = 1

(* A complete forced read on a sensor with oversampling set: the byte
   written is the byte read with the mode bits set to forced, and the local
   mode is sleep although the sensor was put into forced mode *)
C34_Witness ==
    /\ Returned
    /\ last.op = "ReadAllForce"
    /\ last.ret = 0
    /\ Len(last.trace) = 5
    /\ last.trace[1].data[3] = 180
    /\ last.trace[2].val = 181
    /\ mode = sleep_mode
    /\ regs[244] = 181

(* The poll finds the sensor busy *)
C34_WitnessBusy ==
    /\ Returned
    /\ last.op = "ReadTempForce_F"
    /\ last.ret = BME280_BUSY_ERR
    /\ Len(last.trace) = 4
    /\ mode = sleep_mode

(* The ADC read fails on the bus *)
C34_WitnessInterface ==
    /\ Returned
    /\ last.op = "ReadHumForce"
    /\ last.ret = -2
    /\ Len(last.trace) = 5
    /\ mode = sleep_mode

(* The register shows a mode other than sleep while the local mode is sleep *)
C34_WitnessCondition ==
    /\ Returned
    /\ last.op = "ReadPressForce"
    /\ last.ret = -5
    /\ Len(last.trace) = 1
    /\ mode = sleep_mode

----------------------------------------------------------------------------
(* The mode a ctrl_meas byte denotes: its two low bits, 0b10 read as forced *)
ModeOfByte(r) == IF r % 4 = 2 THEN 1 ELSE r % 4

GetModeSucceeded == Returned /\ last.op = "GetMode" /\ last.ret = 0

(* C35: a successful GetMode has read one byte r of ctrl_meas; it reports
   r & 0x03 with the value 0b10 replaced by forced (0b01), stores the same
   value as the local mode, whatever the local mode was before, and leaves
   the rest of the device structure and the registers alone. *)
C35_GetModeValue ==
    GetModeSucceeded =>
        /\ Len(last.trace) = 1
        /\ last.trace[1].k = "r"
        /\ last.trace[1].addr = 244
        /\ last.trace[1].len = 1
        /\ last.out = <<ModeOfByte(last.trace[1].data[1])>>
        /\ mode = last.out[1]
        /\ mode \in {0, 1, 3}
        /\ Dev = [last.pre EXCEPT !.mode = last.out[1]]

(* The register holds the alternative forced encoding while the local mode
   is sleep *)
C35_Witness ==
    /\ GetModeSucceeded
    /\ last.trace[1].data[1] % 4 = 2
    /\ last.trace[1].data[1] > 3
    /\ last.pre.mode = 0
    /\ last.out = <<1>>
    /\ mode = 1

(* The sensor fell back to sleep while the local mode was forced *)
C35_WitnessSleep ==
    /\ GetModeSucceeded
    /\ last.trace[1].data[1] % 4 = 0
    /\ last.pre.mode = 1
    /\ mode = 0

C35_WitnessNormal ==
    /\ GetModeSucceeded
    /\ last.trace[1].data[1] % 4 = 3
    /\ last.pre.mode = 0
    /\ mode = 3

----------------------------------------------------------------------------
(* Configuration round trip: the sensor is register memory that keeps what
   is written; ConfigureAll is called on the sensor as a reset leaves it,
   with configurations whose fields lie in their enumerated ranges, and the
   getters are called next. *)
RoundConfigs ==
    {MkConfig(t, p, h, stby, filter, spi, m) :
        t \in 0..BME280_OVERSAMPLING_X16, p \in {0, 3, BME280_OVERSAMPLING_X16},
        h \in {0, 2, BME280_OVERSAMPLING_X16}, stby \in {0, 2, 5, BME280_STBY_20MS},
        filter \in {0, 3, BME280_FILTER_16}, spi \in {0, 1},
        m \in {BME280_SLEEPMODE, BME280_FORCEDMODE, BME280_NORMALMODE}}

CallConfigureAllRound ==
    /\ pc = "call"
    /\ regs = ResetRegs
    /\ \E Config \in RoundConfigs, fp \in 0..3 :
          Apply("ConfigureAll", 0, Config, NullDriver,
                BME280_ConfigureAll(Dev, regs, Config, fp))

InitRound ==
    /\ initialized = is_initialized
    /\ mode = sleep_mode
    /\ driver = FullDriver(1)
    /\ trimm = ParseTrimm(CalibImageA)
    /\ t_fine = 0
    /\ regs = ResetRegs
    /\ pc = "call"
    /\ last = NoCall
    /\ prev = NoCall
    /\ fault = FALSE

(* The call returns to the caller; `prev' keeps it if it was a successful
   ConfigureAll *)
ReturnRound ==
    /\ pc = "ret"
    /\ pc' = "call"
    /\ prev' = IF last.op = "ConfigureAll" /\ last.ret = BME280_OK THEN last ELSE NoCall
    /\ last' = NoCall
    /\ UNCHANGED <<initialized, mode, driver, trimm, t_fine, regs, fault>>

NextRound ==
    \/ CallConfigureAllRound
    \/ CallGetMode
    \/ CallGetPOvs
    \/ CallGetTOvs
    \/ CallGetHOvs
    \/ CallGetTStby
    \/ CallGetTFilter
    \/ CallIs3WireSPIEnabled
    \/ ReturnRound

SpecRound == InitRound /\ [][NextRound]_vars

(* The field of a configuration a getter is expected to return *)
FieldOfConfig(op, cfg) ==
    CASE op = "GetTOvs" -> cfg.oversampling_t
      [] op = "GetPOvs" -> cfg.oversampling_p
      [] op = "GetHOvs" -> cfg.oversampling_h
      [] op = "GetTStby" -> cfg.t_stby
      [] op = "GetTFilter" -> cfg.filter
      [] op = "Is3WireSPIEnabled" -> cfg.spi3w_enable
      [] op = "GetMode" -> cfg.mode

(* A successful getter called right after a successful ConfigureAll *)
GetterAfterConfigure ==
    /\ Returned
    /\ last.op \in GetterOps
    /\ last.ret = 0
    /\ prev.op = "ConfigureAll"
    /\ prev.ret = 0

(* C36: with the sensor keeping what is written, a getter that succeeds
   right after a successful ConfigureAll(cfg), all fields of cfg within
   their enumerated ranges, returns cfg's field: temperature, pressure and
   humidity oversampling, standby, filter, 3-wire flag and mode. *)
C36_RoundTrip ==
    GetterAfterConfigure => last.out = <<FieldOfConfig(last.op, prev.cfg)>>

C36_Witness ==
    /\ GetterAfterConfigure
    /\ last.op = "GetTStby"
    /\ prev.cfg.t_stby = 2
    /\ prev.cfg.filter = 4
    /\ prev.cfg.spi3w_enable = 1
    /\ last.out = <<2>>

C36_WitnessMode ==
    /\ GetterAfterConfigure
    /\ last.op = "GetMode"
    /\ prev.cfg.mode = 3
    /\ prev.cfg.oversampling_p = 3
    /\ last.out = <<3>>
    /\ mode = 3

C36_WitnessHOvs ==
    /\ GetterAfterConfigure
    /\ last.op = "GetHOvs"
    /\ prev.cfg.oversampling_h = 5
    /\ last.out = <<5>>

----------------------------------------------------------------------------
(* Two callers on one device without external serialization: one runs
   BME280_SetPOvs, the other BME280_SetTOvs, interleaved at the granularity
   of bus operations.  `prev' holds the frame of the first caller and `last'
   the frame of the second: the argument, the position in the function
   ("entry" before the read, "write" between the read and the write, "done"
   after the return), the local copy of ctrl_meas and the value returned.
   `after' records that the other call had already returned when this one
   was entered. *)
RaceFrame(op, arg) ==
    [op |-> op, arg |-> arg, at |-> "entry", buff |-> 0, ret |-> 0, after |-> FALSE]

RaceTmp(f, ctrl_meas) ==
    IF f.op = "SetPOvs" THEN FieldPOvs(ctrl_meas) ELSE FieldTOvs(ctrl_meas)

RaceKeep(f) == IF f.op = "SetPOvs" THEN 227 ELSE 31

RaceBits(f) == IF f.op = "SetPOvs" THEN Shl(f.arg, 2) ELSE Shl(f.arg, 5)

RaceWriteValue_nokeep(f) == U8(RaceBits(f))

(* The byte the setter writes: its local copy of ctrl_meas with the field
   replaced *)
RaceWriteValue(f) == U8(BitOr(BitAnd(f.buff, RaceKeep(f)), RaceBits(f)))

(* From the entry of the setter to the comparison after its bus read; r is
   the result of the read *)
SetFieldFirst(d, rg, f, r, otherDone) ==
    LET g == [f EXCEPT !.after = otherDone]
        s == bme280_is_sleep_mode(d)
    IN  IF f.arg > BME280_OVERSAMPLING_X16
        THEN [g EXCEPT !.at = "done", !.ret = BME280_PARAM_ERR]
        ELSE IF s # BME280_OK THEN [g EXCEPT !.at = "done", !.ret = s]
        ELSE IF r # BME280_OK THEN [g EXCEPT !.at = "done", !.ret = BME280_INTERFACE_ERR]
        ELSE IF f.arg = RaceTmp(f, rg[BME280_CTRL_MEAS_ADDR])
        THEN [g EXCEPT !.at = "done", !.ret = BME280_OK]
        ELSE [g EXCEPT !.at = "write", !.buff = rg[BME280_CTRL_MEAS_ADDR]]

(* The write and the return; wres is the result of the write *)
SetFieldSecond(f, wres) == [f EXCEPT !.at = "done", !.ret = wres]

StepSetPOvs ==
    /\ pc = "race"
    /\ prev.at # "done"
    /\ \E r \in {BusOk, BusFail} :
          IF prev.at = "entry"
          THEN /\ prev' = SetFieldFirst(Dev, regs, prev, r, last.at = "done")
               /\ regs' = regs
          ELSE /\ prev' = SetFieldSecond(prev, r)
               /\ regs' = SensorWrite(regs, BME280_CTRL_MEAS_ADDR, RaceWriteValue(prev), r)
    /\ UNCHANGED <<initialized, mode, driver, trimm, t_fine, pc, last, fault>>

StepSetTOvs ==
    /\ pc = "race"
    /\ last.at # "done"
    /\ \E r \in {BusOk, BusFail} :
          IF last.at = "entry"
          THEN /\ last' = SetFieldFirst(Dev, regs, last, r, prev.at = "done")
               /\ regs' = regs
          ELSE /\ last' = SetFieldSecond(last, r)
               /\ regs' = SensorWrite(regs, BME280_CTRL_MEAS_ADDR, RaceWriteValue(last), r)
    /\ UNCHANGED <<initialized, mode, driver, trimm, t_fine, pc, prev, fault>>

InitRace ==
    /\ initialized = is_initialized
    /\ mode \in {sleep_mode, normal_mode}
    /\ driver = FullDriver(1)
    /\ trimm = ParseTrimm(CalibImageA)
    /\ t_fine = 0
    /\ regs \in {ResetRegs, ConfiguredRegs,
                 [ResetRegs EXCEPT ![BME280_CTRL_MEAS_ADDR] = 72]}
    /\ pc = "race"
    /\ prev \in {RaceFrame("SetPOvs", a) : a \in OvsArgs \cup {3}}
    /\ last \in {RaceFrame("SetTOvs", b) : b \in OvsArgs \cup {3}}
    /\ fault = FALSE

NextRace ==
    \/ StepSetPOvs
    \/ StepSetTOvs

SpecRace == InitRace /\ [][NextRace]_vars

(* Both calls have returned success *)
BothSucceeded ==
    /\ pc = "race"
    /\ prev.at = "done" /\ prev.ret = 0
    /\ last.at = "done" /\ last.ret = 0

(* One of the calls was entered after the other had returned *)
Serialized == prev.after \/ last.after

BothFieldsPresent ==
    /\ (regs[244] \div 4) % 8 = prev.arg
    /\ regs[244] \div 32 = last.arg

(* C37: when SetPOvs(a) and SetTOvs(b) run one after the other and both
   return success, ctrl_meas holds both new fields; an update can be lost
   only when the calls overlap (the witness shows that it then is lost). *)
C37_SerializedKeepsBoth ==
    (BothSucceeded /\ Serialized) => BothFieldsPresent

(* A lost update: the calls overlapped, both returned success, and the
   pressure field written by SetPOvs is gone *)
C37_Witness ==
    /\ BothSucceeded
    /\ ~Serialized
    /\ prev.arg = 5
    /\ last.arg = 3
    /\ regs[244] = 96

(* The other lost update: the temperature field is gone *)
C37_WitnessTOvsLost ==
    /\ BothSucceeded
    /\ ~Serialized
    /\ (regs[244] \div 4) % 8 = prev.arg
    /\ regs[244] \div 32 # last.arg

(* Serialized calls that both wrote *)
C37_WitnessSerial ==
    /\ BothSucceeded
    /\ Serialized
    /\ prev.arg = 5
    /\ last.arg = 3
    /\ regs[244] = 116

----------------------------------------------------------------------------
(* combineToFloat: the number of decimal digits of the fractional part, and
   the value integerPart + fractionalPart / 10^digits as an exact fraction
   <<numerator, denominator>> *)
RECURSIVE FractionalDigits(_)
FractionalDigits(temp) ==
    IF temp > 0 THEN 1 + FractionalDigits(temp \div 10) ELSE 0

RECURSIVE Pow10(_)
Pow10(n) == IF n = 0 THEN 1 ELSE 10 * Pow10(n - 1)

combineToFloat(integerPart, fractionalPart) ==
    LET fractionalDigits == FractionalDigits(fractionalPart)
    IN  <<(integerPart * Pow10(fractionalDigits)) + fractionalPart,
          Pow10(fractionalDigits)>>

(* The conversions to a display pair, applied to compensated values: the
   temperatures of the sensor's range, -40.00 to 85.00 degrees C, in
   centi-degrees *)
TempValues == (-4000)..8500

(* bme280_convert_t_S32_struct(temp, &data): last.out is the pair stored in
   temp_int and temp_fract followed by the remainder temp % 100 as computed,
   before it is narrowed to the 8-bit field *)
CallConvertT ==
    /\ pc = "call"
    /\ \E temp \in TempValues :
          Apply("convert_t", temp, NullConfig, NullDriver,
                OutV(BME280_OK, <<>>, Dev, regs,
                     bme280_convert_t_S32_struct(temp) \o <<CMod(temp, 100)>>))

(* combineToFloat applied to the pair the integer conversion made of a
   non-negative temperature *)
CallCombineToFloat ==
    /\ pc = "call"
    /\ \E temp \in TempValues :
          /\ temp >= 0
          /\ LET data == bme280_convert_t_S32_struct(temp)
             IN  Apply("combineToFloat", temp, NullConfig, NullDriver,
                       OutV(BME280_OK, <<>>, Dev, regs,
                            combineToFloat(data[1], data[2])))

InitConv ==
    /\ initialized = is_initialized
    /\ mode = normal_mode
    /\ driver = FullDriver(1)
    /\ trimm = ParseTrimm(CalibImageA)
    /\ t_fine = 0
    /\ regs = ResetRegs
    /\ pc = "call"
    /\ last = NoCall
    /\ prev = NoCall
    /\ fault = FALSE

NextConv ==
    \/ CallConvertT
    \/ CallCombineToFloat
    \/ Return

SpecConv == InitConv /\ [][NextConv]_vars

(* C38: for every compensated temperature t in centi-degrees, negative ones
   included, the remainder is in 0..99 before it is stored in the unsigned
   8-bit fraction, and integer * 100 + fraction = t for the pair stored. *)
C38_Original ==
    (Returned /\ last.op = "convert_t") =>
        /\ 0 <= last.out[3] /\ last.out[3] <= 99
        /\ last.out[2] = last.out[3]
        /\ (last.out[1] * 100) + last.out[2] = last.arg

(* What holds of the code: the pair is exact for t >= 0; for t < 0 the
   quotient is rounded towards zero and the remainder, in -99..0, is stored
   modulo 256 *)
C38_Truncated ==
    (Returned /\ last.op = "convert_t") =>
        /\ (last.out[1] * 100) + last.out[3] = last.arg
        /\ last.arg >= 0 => (last.out[3] \in 0..99 /\ last.out[2] = last.out[3])
        /\ last.arg < 0 =>
              /\ last.out[3] \in (-99)..0
              /\ last.out[1] <= 0
              /\ last.out[2] = (IF last.out[3] = 0 THEN 0 ELSE 256 + last.out[3])

(* -5.50 degrees C is reported as integer -5, fraction 206 *)
C38_WitnessNegative ==
    /\ Returned
    /\ last.op = "convert_t"
    /\ last.arg = -550
    /\ last.out = <<-5, 206, -50>>

(* C39: for every non-negative v and its pair (v / 100, v % 100),
   combineToFloat reproduces v / 100 exactly, fractions with leading zeros
   and the fraction 0 included. *)
C39_Original ==
    (Returned /\ last.op = "combineToFloat") =>
        last.out[1] * 100 = last.arg * last.out[2]

(* What holds of the code: the result is exact when the fraction is 0 or
   has two digits; a one-digit fraction f is taken as f tenths *)
C39_DigitsFromMagnitude ==
    (Returned /\ last.op = "combineToFloat") =>
        LET i == last.arg \div 100
            f == last.arg % 100
        IN  /\ (f = 0 \/ f >= 10) => last.out[1] * 100 = last.arg * last.out[2]
            /\ f = 0 => last.out = <<i, 1>>
            /\ f \in 1..9 => last.out = <<(10 * i) + f, 10>>

(* 20.05 degrees C comes back as 20.5 *)
C39_WitnessLeadingZero ==
    /\ Returned
    /\ last.op = "combineToFloat"
    /\ last.arg = 2005
    /\ last.out = <<205, 10>>

C39_WitnessZeroFraction ==
    /\ Returned
    /\ last.op = "combineToFloat"
    /\ last.arg = 2000
    /\ last.out = <<20, 1>>

----------------------------------------------------------------------------
(* C40: for every value the humidity compensation returns, after its clamp,
   the integer part made by the integer conversion is at most 100 (%RH) and
   the fractional part is in 0..999. *)
C40_Original ==
    (Returned /\ last.op = "convert_h") =>
        /\ last.out[1] <= 100
        /\ last.out[2] \in 0..999

(* What holds of the code: the value, at most 102400, is split by 1000, so
   the integer part is at most 102 *)
C40_SplitBy1000 ==
    (Returned /\ last.op = "convert_h") =>
        /\ last.arg \in 0..102400
        /\ last.out[1] = last.arg \div 1000
        /\ last.out[1] <= 102
        /\ last.out[2] = last.arg % 1000

(* The clamped maximum 102400, 100 %RH in Q22.10, is reported as 102.400 *)
C40_WitnessCeiling ==
    /\ Returned
    /\ last.op = "convert_h"
    /\ last.arg = 102400
    /\ last.out = <<102, 400>>

(* A value below the clamp *)
C40_WitnessInside ==
    /\ Returned
    /\ last.op = "convert_h"
    /\ last.arg \in 1..99999
    /\ last.out[2] # 0

====
